---- MODULE Spec2Model ----
(***************************************************************************)
(* A model of the NES console of src/src: the 6502 core (cpu.rs) running   *)
(* over the console's CPU bus (console.rs) with an NROM cartridge          *)
(* (mappers/nrom.rs).  A machine value m is a record of the CPU's          *)
(* registers, its cycle counter, the memories behind the bus, the bus      *)
(* calls of the call in progress and the panic that ended it, if any.      *)
(* A Rust method that returns a value is an operator that returns          *)
(* [m |-> the machine afterwards, v |-> the value].  The UxROM mapper       *)
(* (mappers/uxrom.rs), the iNES header parser (ines.rs) and the loader     *)
(* (mapper.rs) are modelled after the CPU, with specifications that call   *)
(* them directly.                                                          *)
(***************************************************************************)
EXTENDS Integers, Sequences, FiniteSets, TLC

VARIABLES pc, sp, ps, a, x, y, cycle, wram, prg_ram, prg_rom, bus_log, panic,
          overflow_checks, prev_call, last_call, resets, calls,
          bank, args, returned

vars == <<pc, sp, ps, a, x, y, cycle, wram, prg_ram, prg_rom, bus_log, panic,
          overflow_checks, prev_call, last_call, resets, calls,
          bank, args, returned>>

\* ---------------------------------------------------------------- bounds
\* Step is disabled once the cycle counter has reached MaxCycle.
MaxCycle == 28
\* Reset is disabled after MaxResets calls.
MaxResets == 3

\* ------------------------------------------------------- integer helpers
RECURSIVE BitAnd(_, _)
BitAnd(p, q) ==
    IF p = 0 \/ q = 0 THEN 0
    ELSE (p % 2) * (q % 2) + 2 * BitAnd(p \div 2, q \div 2)

BitOr(p, q) == p + q - BitAnd(p, q)

BitXor(p, q) == p + q - 2 * BitAnd(p, q)

\* u16::from_be_bytes([hi, lo])
from_be_bytes(hi, lo) == hi * 256 + lo

\* u16::to_be_bytes: <<high byte, low byte>>
to_be_bytes(w) == <<w \div 256, w % 256>>

\* u8::wrapping_add / u8::wrapping_sub / u16::wrapping_add
wrapping_add(p, q) == (p + q) % 256

wrapping_sub(p, q) == (p - q + 256) % 256

wrapping_add16(p, q) == (p + q) % 65536

\* u8::overflowing_add / overflowing_sub: <<result, overflowed>>
overflowing_add(p, q) == <<(p + q) % 256, p + q > 255>>

overflowing_sub(p, q) == <<(p - q + 256) % 256, p < q>>

\* A Vec<u8> is kept as the cells that differ from its fill value.
VecGet(vec, i) == IF i \in DOMAIN vec.cells THEN vec.cells[i] ELSE vec.fill

VecSet(vec, i, data) ==
    [vec EXCEPT !.cells = [j \in DOMAIN vec.cells \cup {i} |->
                              IF j = i THEN data ELSE vec.cells[j]]]

\* ------------------------------------------------------------ Status bits
CARRY == 1
ZERO_RESULT == 2
INTERRUPT_DISABLE == 4
DECIMAL_MODE == 8
BREAK_COMMAND == 16
UNUSED == 32
OVERFLOW == 64
NEGATIVE_RESULT == 128

\* Status::from_bits_truncate: the bits that are no flag are dropped.
from_bits_truncate(bits) ==
    BitAnd(bits, CARRY + ZERO_RESULT + INTERRUPT_DISABLE + DECIMAL_MODE
                 + BREAK_COMMAND + UNUSED + OVERFLOW + NEGATIVE_RESULT)

\* Status::contains
contains(status, flag) == BitAnd(status, flag) = flag

\* Status::set
status_set(status, flag, value) ==
    IF value THEN BitOr(status, flag) ELSE BitAnd(status, 255 - flag)

\* ------------------------------------------------------- panics, machine
NoPanic == <<>>

Panicked(m) == m.panic # NoPanic

Panic(m, msg) == IF Panicked(m) THEN m ELSE [m EXCEPT !.panic = msg]

\* An assignment to a field of self; nothing runs after a panic.
Set(m, field, value) == IF Panicked(m) THEN m ELSE [m EXCEPT ![field] = value]

Ret(m, value) == [m |-> m, v |-> value]

Machine ==
    [pc |-> pc, sp |-> sp, ps |-> ps, a |-> a, x |-> x, y |-> y,
     cycle |-> cycle, wram |-> wram, prg_ram |-> prg_ram, prg_rom |-> prg_rom,
     bank |-> bank, log |-> <<>>, panic |-> panic]

\* -------------------------------------------------- mappers/nrom.rs: Nrom
PRG_RAM_LEN == 8192

\* A PRG-ROM window without mirroring: the index is the offset from $8000.
Nrom_cpu_read_unmirrored(m, address) ==
    IF address \in 24576..32767 THEN VecGet(m.prg_ram, address % PRG_RAM_LEN)
    ELSE IF address \in 32768..65535
         THEN VecGet(m.prg_rom, address - 32768)
         ELSE 0

Nrom_cpu_read(m, address) ==
    IF address \in 24576..32767 THEN VecGet(m.prg_ram, address % PRG_RAM_LEN)
    ELSE IF address \in 32768..65535
         THEN VecGet(m.prg_rom, address % m.prg_rom.len)
         ELSE 0

\* A cartridge without PRG-RAM: only the PRG-ROM window takes writes.
Nrom_cpu_write_without_ram(m, address, data) ==
    IF address \in 32768..65535
    THEN [m EXCEPT !.prg_rom = VecSet(@, address % m.prg_rom.len, data)]
    ELSE m

Nrom_cpu_write(m, address, data) ==
    IF address \in 24576..32767
    THEN [m EXCEPT !.prg_ram = VecSet(@, address % PRG_RAM_LEN, data)]
    ELSE IF address \in 32768..65535
         THEN [m EXCEPT !.prg_rom = VecSet(@, address % m.prg_rom.len, data)]
         ELSE m

\* ------------------------------------------------- console.rs: CpuBus
WRAM_LEN == 2048

\* The byte CpuBus::read returns where it returns one.
bus_value(m, address) ==
    IF address \in 0..8191 THEN VecGet(m.wram, address % WRAM_LEN)
    ELSE Nrom_cpu_read(m, address)

\* CpuBus::read as a call the bus receives: `kind` tells who called.
bus_read(m, address, kind) ==
    LET returns(data) ==
          Ret([m EXCEPT !.log = Append(@, <<kind, address, data>>)], data)
    IN IF Panicked(m) THEN Ret(m, 0)
       ELSE IF address \in 8192..16415
            THEN Ret(Panic(m, <<"not implemented">>), 0)
            ELSE returns(bus_value(m, address))

bus_write(m, address, data) ==
    LET store(logged) ==
          IF address \in 0..8191
          THEN [logged EXCEPT !.wram = VecSet(@, address % WRAM_LEN, data)]
          ELSE IF address \in 8192..16383 THEN logged
          ELSE IF address \in 16384..16415 THEN Panic(m, <<"not implemented">>)
          ELSE Nrom_cpu_write(logged, address, data)
    IN IF Panicked(m) THEN m
       ELSE store([m EXCEPT !.log = Append(@, <<"write", address, data>>)])

\* Bus::read_range(start..=end): one read per address, in address order,
\* up to the first address whose read panics.
read_range(m, start, end, kind) ==
    IF Panicked(m) \/ start > end THEN m
    ELSE LET bad == {ad \in start..end : ad >= 8192 /\ ad <= 16415}
             stop == IF bad = {} THEN end
                     ELSE (CHOOSE ad \in bad : \A other \in bad : ad <= other) - 1
             logged == [m EXCEPT !.log = @ \o
                          [i \in 1..(stop - start + 1) |->
                              <<kind, start + i - 1, bus_value(m, start + i - 1)>>]]
         IN IF bad = {} THEN logged ELSE Panic(logged, <<"not implemented">>)

\* ------------------------------------------------------------ cpu.rs: Cpu
STACK_BASE == 256

INITIAL_CYCLE == 8

get_negative_result_flag(m) == contains(m.ps, NEGATIVE_RESULT)

get_zero_result_flag(m) == contains(m.ps, ZERO_RESULT)

get_carry_flag(m) == contains(m.ps, CARRY)

get_overflow_flag(m) == contains(m.ps, OVERFLOW)

\* set_carry_flag, set_overflow_flag, set_negative_result_flag,
\* set_zero_result_flag, set_interrupt_disable_flag, set_decimal_mode_flag
set_flag(m, flag, value) == Set(m, "ps", status_set(m.ps, flag, value))

set_negative_result_flag_for_value(m, value) ==
    set_flag(m, NEGATIVE_RESULT, value >= 128)

set_zero_result_flag_for_value(m, value) == set_flag(m, ZERO_RESULT, value = 0)


\* An overflow flag that is set when the two inputs differ in sign.
set_overflow_flag_for_inputs(m, in_a, in_b, result) ==
    set_flag(m, OVERFLOW, BitAnd(BitXor(in_a, in_b), 128) = 128)

set_overflow_flag_for_result(m, in_a, in_b, result) ==
    set_flag(m, OVERFLOW,
             BitAnd(BitAnd(BitXor(in_a, result), BitXor(in_b, result)), 128) = 128)

stack_address(m) == STACK_BASE + m.sp

\* A read that does not count its cycle.
read_uncounted(m, address) ==
    IF Panicked(m) THEN Ret(m, 0)
    ELSE bus_read(m, address, "read")

read(m, address) ==
    IF Panicked(m) THEN Ret(m, 0)
    ELSE bus_read([m EXCEPT !.cycle = @ + 1], address, "read")

write(m, address, data) ==
    IF Panicked(m) THEN m
    ELSE bus_write([m EXCEPT !.cycle = @ + 1], address, data)

\* `sp -= 1` panics on 0 in a build with overflow checks and wraps without.
push(m, data) ==
    LET address == stack_address(m)
    IN IF m.sp = 0 /\ overflow_checks
       THEN Panic(m, <<"attempt to subtract with overflow">>)
       ELSE write(Set(m, "sp", wrapping_sub(m.sp, 1)), address, data)

\* `sp += 1` panics on 255 in a build with overflow checks and wraps without.
pull(m) ==
    LET address == stack_address(m)
    IN IF m.sp = 255 /\ overflow_checks
       THEN Ret(Panic(m, <<"attempt to add with overflow">>), 0)
       ELSE read(Set(m, "sp", wrapping_add(m.sp, 1)), address)

fetch(m) ==
    LET advance(data) == Ret(Set(data.m, "pc", wrapping_add16(m.pc, 1)), data.v)
    IN advance(read(m, m.pc))

\* ------------------------------------------------- effective addresses
\* An implied-mode fetch that skips the read of the byte after the opcode.
fetch_implied_without_read(m) == m

fetch_implied(m) == read(m, m.pc).m

fetch_accumulator(m) == Ret(read(m, m.pc).m, m.a)

fetch_immediate(m) == fetch(m)

fetch_absolute(m) ==
    LET low(adl) ==
          LET high(adh) == Ret(adh.m, from_be_bytes(adh.v, adl.v))
          IN high(fetch(adl.m))
    IN low(fetch(m))

\* fetch_absolute_x_read, fetch_absolute_y_read: `index` is X or Y.

\* An indexed read-form fetch that skips the read of the same-page address
\* when the index crosses a page.
fetch_absolute_indexed_without_dummy(m, index) ==
    LET low(bal) ==
          LET high(bah) ==
                Ret(bah.m, wrapping_add16(from_be_bytes(bah.v, bal.v), index))
          IN high(fetch(bal.m))
    IN low(fetch(m))

fetch_absolute_indexed_read(m, index) ==
    LET low(bal) ==
          LET high(bah) ==
                LET sum == overflowing_add(bal.v, index)
                    same_page_address == from_be_bytes(bah.v, sum[1])
                    next_page_address == from_be_bytes(wrapping_add(bah.v, 1), sum[1])
                IN IF sum[2]
                   THEN Ret(read(bah.m, same_page_address).m, next_page_address)
                   ELSE Ret(bah.m, same_page_address)
          IN high(fetch(bal.m))
    IN low(fetch(m))

\* fetch_absolute_x_write, fetch_absolute_y_write
fetch_absolute_indexed_write(m, index) ==
    LET low(bal) ==
          LET high(bah) ==
                LET sum == overflowing_add(bal.v, index)
                    same_page_address == from_be_bytes(bah.v, sum[1])
                    next_page_address == from_be_bytes(wrapping_add(bah.v, 1), sum[1])
                IN Ret(read(bah.m, same_page_address).m,
                       IF sum[2] THEN next_page_address ELSE same_page_address)
          IN high(fetch(bal.m))
    IN low(fetch(m))

fetch_absolute_x_read(m) == fetch_absolute_indexed_read(m, m.x)

fetch_absolute_x_write(m) == fetch_absolute_indexed_write(m, m.x)

fetch_absolute_y_read(m) == fetch_absolute_indexed_read(m, m.y)

fetch_absolute_y_write(m) == fetch_absolute_indexed_write(m, m.y)

fetch_zero_page(m) ==
    LET low(adl) == Ret(adl.m, from_be_bytes(0, adl.v))
    IN low(fetch(m))

\* fetch_zero_page_x, fetch_zero_page_y
fetch_zero_page_indexed(m, index) ==
    LET low(bal) ==
          Ret(read(bal.m, from_be_bytes(0, bal.v)).m,
              from_be_bytes(0, wrapping_add(bal.v, index)))
    IN low(fetch(m))

fetch_zero_page_x(m) == fetch_zero_page_indexed(m, m.x)

fetch_zero_page_y(m) == fetch_zero_page_indexed(m, m.y)

fetch_indirect_x(m) ==
    LET base(bal) ==
          LET bal_x == wrapping_add(bal.v, m.x)
              bal_x_1 == wrapping_add(bal_x, 1)
              low(adl) ==
                LET high(adh) == Ret(adh.m, from_be_bytes(adh.v, adl.v))
                IN high(read(adl.m, from_be_bytes(0, bal_x_1)))
          IN low(read(read(bal.m, from_be_bytes(0, bal.v)).m, from_be_bytes(0, bal_x)))
    IN base(fetch(m))

fetch_indirect_y_read(m) ==
    LET pointer(ial) ==
          LET ial_1 == wrapping_add(ial.v, 1)
              low(bal) ==
                LET high(bah) ==
                      LET sum == overflowing_add(bal.v, m.y)
                          same_page_address == from_be_bytes(bah.v, sum[1])
                          next_page_address ==
                              from_be_bytes(wrapping_add(bah.v, 1), sum[1])
                      IN IF sum[2]
                         THEN Ret(read(bah.m, same_page_address).m, next_page_address)
                         ELSE Ret(bah.m, same_page_address)
                IN high(read(bal.m, from_be_bytes(0, ial_1)))
          IN low(read(ial.m, from_be_bytes(0, ial.v)))
    IN pointer(fetch(m))

fetch_indirect_y_write(m) ==
    LET pointer(ial) ==
          LET ial_1 == wrapping_add(ial.v, 1)
              low(bal) ==
                LET high(bah) ==
                      LET sum == overflowing_add(bal.v, m.y)
                          same_page_address == from_be_bytes(bah.v, sum[1])
                          next_page_address ==
                              from_be_bytes(wrapping_add(bah.v, 1), sum[1])
                      IN Ret(read(bah.m, same_page_address).m,
                             IF sum[2] THEN next_page_address ELSE same_page_address)
                IN high(read(bal.m, from_be_bytes(0, ial_1)))
          IN low(read(ial.m, from_be_bytes(0, ial.v)))
    IN pointer(fetch(m))

\* --------------------------------------------------------- instructions
\* inx_implied, iny_implied, dex_implied, dey_implied: no bus access.
step_register(m, reg, result) ==
    LET m1 == set_zero_result_flag_for_value(m, result)
        m2 == set_negative_result_flag_for_value(m1, result)
    IN Set(m2, reg, result)

\* tax_implied, tay_implied, txa_implied, tya_implied, tsx_implied, txs_implied
transfer(m, dest, src) == Set(fetch_implied(m), dest, m[src])

inc(m, address) ==
    LET modify(value) ==
          LET result == wrapping_add(value.v, 1)
              m1 == write(value.m, address, value.v)
              m2 == set_zero_result_flag_for_value(m1, result)
              m3 == set_negative_result_flag_for_value(m2, result)
          IN write(m3, address, result)
    IN modify(read(m, address))

dec(m, address) ==
    LET modify(value) ==
          LET result == wrapping_sub(value.v, 1)
              m1 == write(value.m, address, value.v)
              m2 == set_zero_result_flag_for_value(m1, result)
              m3 == set_negative_result_flag_for_value(m2, result)
          IN write(m3, address, result)
    IN modify(read(m, address))

asl(m, value) ==
    LET carry_out == BitAnd(value, 128) = 128
        result == (value * 2) % 256
        m1 == set_flag(m, CARRY, carry_out)
        m2 == set_zero_result_flag_for_value(m1, result)
        m3 == set_negative_result_flag_for_value(m2, result)
    IN Ret(m3, result)

lsr(m, value) ==
    LET carry_out == BitAnd(value, 128) = 128
        result == value \div 2
        m1 == set_flag(m, CARRY, carry_out)
        m2 == set_zero_result_flag_for_value(m1, result)
        m3 == set_negative_result_flag_for_value(m2, result)
    IN Ret(m3, result)

rol(m, value) ==
    LET carry_in == get_carry_flag(m)
        carry_out == BitAnd(value, 128) = 128
        shifted == (value * 2) % 256
        result == IF carry_in THEN BitOr(shifted, 1) ELSE shifted
        m1 == set_flag(m, CARRY, carry_out)
        m2 == set_zero_result_flag_for_value(m1, result)
        m3 == set_negative_result_flag_for_value(m2, result)
    IN Ret(m3, result)

ror(m, value) ==
    LET carry_in == get_carry_flag(m)
        carry_out == BitAnd(value, 1) = 1
        shifted == value \div 2
        result == IF carry_in THEN BitOr(shifted, 128) ELSE shifted
        m1 == set_flag(m, CARRY, carry_out)
        m2 == set_zero_result_flag_for_value(m1, result)
        m3 == set_negative_result_flag_for_value(m2, result)
    IN Ret(m3, result)

asl_mem(m, address) ==
    LET modify(value) ==
          LET store(result) == write(result.m, address, result.v)
          IN store(asl(write(value.m, address, value.v), value.v))
    IN modify(read(m, address))

lsr_mem(m, address) ==
    LET modify(value) ==
          LET store(result) == write(result.m, address, result.v)
          IN store(lsr(write(value.m, address, value.v), value.v))
    IN modify(read(m, address))

rol_mem(m, address) ==
    LET modify(value) ==
          LET store(result) == write(result.m, address, result.v)
          IN store(rol(write(value.m, address, value.v), value.v))
    IN modify(read(m, address))

\* A rotate that stores its result without first writing back the value it
\* read: the read-modify-write signature tells it from ror_mem.
ror_mem_single_write(m, address) ==
    LET modify(value) ==
          LET store(result) == write(result.m, address, result.v)
          IN store(ror(value.m, value.v))
    IN modify(read(m, address))

ror_mem(m, address) ==
    LET modify(value) ==
          LET store(result) == write(result.m, address, result.v)
          IN store(ror(write(value.m, address, value.v), value.v))
    IN modify(read(m, address))

lda(m, value) ==
    LET m1 == set_zero_result_flag_for_value(m, value)
        m2 == set_negative_result_flag_for_value(m1, value)
    IN Set(m2, "a", value)

ldx(m, value) ==
    LET m1 == set_zero_result_flag_for_value(m, value)
        m2 == set_negative_result_flag_for_value(m1, value)
    IN Set(m2, "x", value)

ldy(m, value) ==
    LET m1 == set_zero_result_flag_for_value(m, value)
        m2 == set_negative_result_flag_for_value(m1, value)
    IN Set(m2, "y", value)

\* An ADC that adjusts its result by 6 in decimal mode.
adc_decimal(m, value) ==
    LET carry_in == get_carry_flag(m)
        accumulator == m.a
        s1 == overflowing_add(value, IF carry_in THEN 1 ELSE 0)
        s2 == overflowing_add(accumulator, s1[1])
        result == IF contains(m.ps, DECIMAL_MODE) THEN wrapping_add(s2[1], 6)
                  ELSE s2[1]
        carry_out == s1[2] \/ s2[2]
        m1 == set_overflow_flag_for_result(m, accumulator, value, result)
        m2 == set_flag(m1, CARRY, carry_out)
        m3 == set_zero_result_flag_for_value(m2, result)
        m4 == set_negative_result_flag_for_value(m3, result)
    IN Set(m4, "a", result)

adc(m, value) ==
    LET carry_in == get_carry_flag(m)
        accumulator == m.a
        s1 == overflowing_add(value, IF carry_in THEN 1 ELSE 0)
        s2 == overflowing_add(accumulator, s1[1])
        result == s2[1]
        carry_out == s1[2] \/ s2[2]
        m1 == set_overflow_flag_for_result(m, accumulator, value, result)
        m2 == set_flag(m1, CARRY, carry_out)
        m3 == set_zero_result_flag_for_value(m2, result)
        m4 == set_negative_result_flag_for_value(m3, result)
    IN Set(m4, "a", result)

sbc(m, value) ==
    LET borrow_in == ~get_carry_flag(m)
        accumulator == m.a
        s1 == overflowing_sub(value, IF borrow_in THEN 1 ELSE 0)
        s2 == overflowing_sub(accumulator, s1[1])
        result == s2[1]
        carry_out == ~(s1[2] \/ s2[2])
        m1 == set_overflow_flag_for_result(m, accumulator, value, result)
        m2 == set_flag(m1, CARRY, carry_out)
        m3 == set_zero_result_flag_for_value(m2, result)
        m4 == set_negative_result_flag_for_value(m3, result)
    IN Set(m4, "a", result)

\* and, eor, ora: `result` is the accumulator combined with the operand.
logic(m, result) ==
    LET m1 == set_zero_result_flag_for_value(m, result)
        m2 == set_negative_result_flag_for_value(m1, result)
    IN Set(m2, "a", result)

and(m, value) == logic(m, BitAnd(m.a, value))

eor(m, value) == logic(m, BitXor(m.a, value))

ora(m, value) == logic(m, BitOr(m.a, value))

bit(m, value) ==
    LET result == BitAnd(m.a, value)
        negative_out == BitAnd(value, 128) = 128
        overflow_out == BitAnd(value, 64) = 64
        m1 == set_zero_result_flag_for_value(m, result)
        m2 == set_flag(m1, NEGATIVE_RESULT, negative_out)
    IN set_flag(m2, OVERFLOW, overflow_out)

cmp(m, register, value) ==
    LET d == overflowing_sub(register, value)
        m1 == set_flag(m, CARRY, d[2])
        m2 == set_zero_result_flag_for_value(m1, d[1])
        m3 == set_negative_result_flag_for_value(m2, d[1])
    IN Set(m3, "a", d[1])

sta(m, address) == write(m, address, m.a)

stx(m, address) == write(m, address, m.x)

sty(m, address) == write(m, address, m.y)

pha_implied(m) ==
    LET store(m1) == push(m1, m1.a)
    IN store(fetch_implied(m))

php_implied(m) ==
    LET store(m1) == push(m1, m1.ps)
    IN store(fetch_implied(m))

pla_implied(m) ==
    LET load(value) ==
          LET m2 == set_zero_result_flag_for_value(value.m, value.v)
              m3 == set_negative_result_flag_for_value(m2, value.v)
          IN Set(m3, "a", value.v)
    IN load(pull(read(m, stack_address(m)).m))

plp_implied(m) ==
    LET load(value) == Set(value.m, "ps", from_bits_truncate(value.v))
    IN load(pull(read(m, stack_address(m)).m))

branch(m, condition) ==
    LET relative(offset) ==
          LET pch == to_be_bytes(offset.m.pc)[1]
              pcl == to_be_bytes(offset.m.pc)[2]
              \* (pcl as i16).overflowing_add(offset as i16): both are 0..255
              sum == pcl + offset.v
              carry == sum > 32767
              pcl_offset == sum % 256
              same_page_address == from_be_bytes(pch, pcl_offset)
              next_page_address == from_be_bytes(wrapping_add(pch, 1), pcl_offset)
              taken(m2) ==
                IF carry
                THEN Set(read(m2, next_page_address).m, "pc", next_page_address)
                ELSE Set(m2, "pc", same_page_address)
          IN IF ~condition THEN offset.m
             ELSE taken(read(offset.m, same_page_address).m)
    IN relative(fetch(m))

brk_implied(m) ==
    LET interrupt(m1) ==
          LET pch == to_be_bytes(m1.pc)[1]
              pcl == to_be_bytes(m1.pc)[2]
              p == m1.ps
              low(adl) ==
                LET high(adh) == Set(adh.m, "pc", from_be_bytes(adh.v, adl.v))
                IN high(read(adl.m, 65535))
          IN low(read(push(push(push(m1, pch), pcl), p), 65534))
    IN interrupt(fetch(m).m)

jsr_absolute(m) ==
    LET low(adl) ==
          LET call(m1) ==
                LET pch == to_be_bytes(m1.pc)[1]
                    pcl == to_be_bytes(m1.pc)[2]
                    high(adh) == Set(adh.m, "pc", from_be_bytes(adh.v, adl.v))
                IN high(fetch(push(push(m1, pch), pcl)))
          IN call(read(adl.m, stack_address(adl.m)).m)
    IN low(fetch(m))

rts_implied(m) ==
    LET return(m1) ==
          LET low(pcl) ==
                LET high(pch) ==
                      LET m3 == read(pch.m, from_be_bytes(pch.v, pcl.v)).m
                          pcl_1 == wrapping_add(pcl.v, 1)
                      IN Set(m3, "pc", from_be_bytes(pch.v, pcl_1))
                IN high(pull(pcl.m))
          IN low(pull(read(m1, stack_address(m1)).m))
    IN return(fetch_immediate(m).m)

rti_implied(m) ==
    LET return(m1) ==
          LET status(p) ==
                LET low(pcl) ==
                      LET high(pch) ==
                            Set(Set(pch.m, "ps", from_bits_truncate(p.v)),
                                "pc", from_be_bytes(pch.v, pcl.v))
                      IN high(pull(pcl.m))
                IN low(pull(p.m))
          IN status(pull(read(m1, stack_address(m1)).m))
    IN return(fetch_immediate(m).m)

jmp_absolute(m) ==
    LET low(adl) ==
          LET high(adh) == Set(adh.m, "pc", from_be_bytes(adh.v, adl.v))
          IN high(fetch(adl.m))
    IN low(fetch(m))

\* An indirect jump that carries into the high byte of the pointer, reading
\* the target's high byte from the next page when IAL is $FF.
jmp_indirect_carry(m) ==
    LET pointer_low(ial) ==
          LET pointer_high(iah) ==
                LET pointer == from_be_bytes(iah.v, ial.v)
                    low(adl) ==
                      LET high(adh) == Set(adh.m, "pc", from_be_bytes(adh.v, adl.v))
                      IN high(read(adl.m, wrapping_add16(pointer, 1)))
                IN low(read(iah.m, pointer))
          IN pointer_high(fetch(ial.m))
    IN pointer_low(fetch(m))

jmp_indirect(m) ==
    LET pointer_low(ial) ==
          LET pointer_high(iah) ==
                LET ial_1 == wrapping_add(ial.v, 1)
                    low(adl) ==
                      LET high(adh) == Set(adh.m, "pc", from_be_bytes(adh.v, adl.v))
                      IN high(read(adl.m, from_be_bytes(iah.v, ial_1)))
                IN low(read(iah.m, from_be_bytes(iah.v, ial.v)))
          IN pointer_high(fetch(ial.m))
    IN pointer_low(fetch(m))

unimplemented(m) == Panic(m, <<"not implemented">>)
\* addressing_mode.rs ADDRESSING_MODES: entry i + 1 is the mode of opcode i.
ADDRESSING_MODES ==
    <<
      "Implied", "IndirectZeroPageX", "Unimplemented", "Unimplemented",
      "Unimplemented", "ZeroPage", "ZeroPage", "Unimplemented",
      "Implied", "Immediate", "Accumulator", "Unimplemented",
      "Unimplemented", "Absolute", "Absolute", "Unimplemented",
      "Relative", "IndirectZeroPageY", "Unimplemented", "Unimplemented",
      "Unimplemented", "ZeroPageX", "ZeroPageX", "Unimplemented",
      "Implied", "AbsoluteY", "Unimplemented", "Unimplemented",
      "Unimplemented", "AbsoluteX", "AbsoluteX", "Unimplemented",
      "Absolute", "IndirectZeroPageX", "Unimplemented", "Unimplemented",
      "ZeroPage", "ZeroPage", "ZeroPage", "Unimplemented",
      "Implied", "Immediate", "Accumulator", "Unimplemented",
      "Absolute", "Absolute", "Absolute", "Unimplemented",
      "Relative", "IndirectZeroPageY", "Unimplemented", "Unimplemented",
      "Unimplemented", "ZeroPageX", "ZeroPageX", "Unimplemented",
      "Implied", "AbsoluteY", "Unimplemented", "Unimplemented",
      "Unimplemented", "AbsoluteX", "AbsoluteX", "Unimplemented",
      "Implied", "IndirectZeroPageX", "Unimplemented", "Unimplemented",
      "Unimplemented", "ZeroPage", "ZeroPage", "Unimplemented",
      "Implied", "Immediate", "Accumulator", "Unimplemented",
      "Absolute", "Absolute", "Absolute", "Unimplemented",
      "Relative", "IndirectZeroPageY", "Unimplemented", "Unimplemented",
      "Unimplemented", "ZeroPageX", "ZeroPageX", "Unimplemented",
      "Implied", "AbsoluteY", "Unimplemented", "Unimplemented",
      "Unimplemented", "AbsoluteX", "AbsoluteX", "Unimplemented",
      "Implied", "IndirectZeroPageX", "Unimplemented", "Unimplemented",
      "Unimplemented", "ZeroPage", "ZeroPage", "Unimplemented",
      "Implied", "Immediate", "Accumulator", "Unimplemented",
      "IndirectAbsolute", "Absolute", "Absolute", "Unimplemented",
      "Relative", "IndirectZeroPageY", "Unimplemented", "Unimplemented",
      "Unimplemented", "ZeroPageX", "ZeroPageX", "Unimplemented",
      "Implied", "AbsoluteY", "Unimplemented", "Unimplemented",
      "Unimplemented", "AbsoluteX", "AbsoluteX", "Unimplemented",
      "Unimplemented", "IndirectZeroPageX", "Unimplemented", "Unimplemented",
      "ZeroPage", "ZeroPage", "ZeroPage", "Unimplemented",
      "Implied", "Unimplemented", "Implied", "Unimplemented",
      "Absolute", "Absolute", "Absolute", "Unimplemented",
      "Relative", "IndirectZeroPageY", "Unimplemented", "Unimplemented",
      "ZeroPageX", "ZeroPageX", "ZeroPageY", "Unimplemented",
      "Implied", "Unimplemented", "Implied", "Unimplemented",
      "Unimplemented", "AbsoluteX", "Unimplemented", "Unimplemented",
      "Immediate", "IndirectZeroPageX", "Immediate", "Unimplemented",
      "ZeroPage", "ZeroPage", "ZeroPage", "Unimplemented",
      "Implied", "Immediate", "Implied", "Unimplemented",
      "Absolute", "Absolute", "Absolute", "Unimplemented",
      "Relative", "IndirectZeroPageY", "Unimplemented", "Unimplemented",
      "ZeroPageX", "ZeroPageX", "ZeroPageY", "Unimplemented",
      "Implied", "AbsoluteY", "Implied", "Unimplemented",
      "AbsoluteX", "AbsoluteX", "AbsoluteY", "Unimplemented",
      "Immediate", "IndirectZeroPageX", "Unimplemented", "Unimplemented",
      "ZeroPage", "ZeroPage", "ZeroPage", "Unimplemented",
      "Implied", "Immediate", "Implied", "Unimplemented",
      "Absolute", "Absolute", "Absolute", "Unimplemented",
      "Relative", "IndirectZeroPageY", "Unimplemented", "Unimplemented",
      "Unimplemented", "ZeroPageX", "ZeroPageX", "Unimplemented",
      "Implied", "AbsoluteY", "Unimplemented", "Unimplemented",
      "Unimplemented", "AbsoluteX", "AbsoluteX", "Unimplemented",
      "Immediate", "IndirectZeroPageX", "Unimplemented", "Unimplemented",
      "ZeroPage", "ZeroPage", "ZeroPage", "Unimplemented",
      "Implied", "Immediate", "Implied", "Unimplemented",
      "Absolute", "Absolute", "Absolute", "Unimplemented",
      "Relative", "IndirectZeroPageY", "Unimplemented", "Unimplemented",
      "Unimplemented", "ZeroPageX", "ZeroPageX", "Unimplemented",
      "Implied", "AbsoluteY", "Unimplemented", "Unimplemented",
      "Unimplemented", "AbsoluteX", "AbsoluteX", "Unimplemented"
    >>

\* instructions.rs INSTRUCTIONS: entry i + 1 is the mnemonic of opcode i.
MNEMONICS ==
    <<
      "Brk", "Ora", "Unimplemented", "Unimplemented", "Unimplemented", "Ora", "Asl", "Unimplemented",
      "Php", "Ora", "Asl", "Unimplemented", "Unimplemented", "Ora", "Asl", "Unimplemented",
      "Bpl", "Ora", "Unimplemented", "Unimplemented", "Unimplemented", "Ora", "Asl", "Unimplemented",
      "Clc", "Ora", "Unimplemented", "Unimplemented", "Unimplemented", "Ora", "Asl", "Unimplemented",
      "Jsr", "And", "Unimplemented", "Unimplemented", "Bit", "And", "Rol", "Unimplemented",
      "Plp", "And", "Rol", "Unimplemented", "Bit", "And", "Rol", "Unimplemented",
      "Bmi", "And", "Unimplemented", "Unimplemented", "Unimplemented", "And", "Rol", "Unimplemented",
      "Sec", "And", "Unimplemented", "Unimplemented", "Unimplemented", "And", "Rol", "Unimplemented",
      "Rti", "Eor", "Unimplemented", "Unimplemented", "Unimplemented", "Eor", "Lsr", "Unimplemented",
      "Pha", "Eor", "Lsr", "Unimplemented", "Jmp", "Eor", "Lsr", "Unimplemented",
      "Bvc", "Eor", "Unimplemented", "Unimplemented", "Unimplemented", "Eor", "Lsr", "Unimplemented",
      "Cli", "Eor", "Unimplemented", "Unimplemented", "Unimplemented", "Eor", "Lsr", "Unimplemented",
      "Rts", "Adc", "Unimplemented", "Unimplemented", "Unimplemented", "Adc", "Ror", "Unimplemented",
      "Pla", "Adc", "Ror", "Unimplemented", "Jmp", "Adc", "Ror", "Unimplemented",
      "Bvs", "Adc", "Unimplemented", "Unimplemented", "Unimplemented", "Adc", "Ror", "Unimplemented",
      "Sei", "Adc", "Unimplemented", "Unimplemented", "Unimplemented", "Adc", "Ror", "Unimplemented",
      "Unimplemented", "Sta", "Unimplemented", "Unimplemented", "Sty", "Sta", "Stx", "Unimplemented",
      "Dey", "Unimplemented", "Txa", "Unimplemented", "Sty", "Sta", "Stx", "Unimplemented",
      "Bcc", "Sta", "Unimplemented", "Unimplemented", "Sty", "Sta", "Stx", "Unimplemented",
      "Tya", "Unimplemented", "Txs", "Unimplemented", "Unimplemented", "Sta", "Unimplemented", "Unimplemented",
      "Ldy", "Lda", "Ldx", "Unimplemented", "Ldy", "Lda", "Ldx", "Unimplemented",
      "Tay", "Lda", "Tax", "Unimplemented", "Ldy", "Lda", "Ldx", "Unimplemented",
      "Bcs", "Lda", "Unimplemented", "Unimplemented", "Ldy", "Lda", "Ldx", "Unimplemented",
      "Clv", "Lda", "Tsx", "Unimplemented", "Ldy", "Lda", "Ldx", "Unimplemented",
      "Cpy", "Cmp", "Unimplemented", "Unimplemented", "Cpy", "Cmp", "Dec", "Unimplemented",
      "Iny", "Cmp", "Dex", "Unimplemented", "Cpy", "Cmp", "Dec", "Unimplemented",
      "Bne", "Cmp", "Unimplemented", "Unimplemented", "Unimplemented", "Cmp", "Dec", "Unimplemented",
      "Cld", "Cmp", "Unimplemented", "Unimplemented", "Unimplemented", "Cmp", "Dec", "Unimplemented",
      "Cpx", "Sbc", "Unimplemented", "Unimplemented", "Cpx", "Sbc", "Inc", "Unimplemented",
      "Inx", "Sbc", "Nop", "Unimplemented", "Cpx", "Sbc", "Inc", "Unimplemented",
      "Beq", "Sbc", "Unimplemented", "Unimplemented", "Unimplemented", "Sbc", "Inc", "Unimplemented",
      "Sed", "Sbc", "Unimplemented", "Unimplemented", "Unimplemented", "Sbc", "Inc", "Unimplemented"
    >>

\* cpu.rs INSTRUCTIONS: entry i + 1 is the handler of opcode i.
INSTRUCTIONS ==
    <<
      "brk_implied", "ora_indirect_x", "unimplemented", "unimplemented",
      "unimplemented", "ora_zero_page", "asl_zero_page", "unimplemented",
      "php_implied", "ora_immediate", "asl_accumulator", "unimplemented",
      "unimplemented", "ora_absolute", "asl_absolute", "unimplemented",
      "bpl_relative", "ora_indirect_y", "unimplemented", "unimplemented",
      "unimplemented", "ora_zero_page_x", "asl_zero_page_x", "unimplemented",
      "clc_implied", "ora_absolute_y", "unimplemented", "unimplemented",
      "unimplemented", "ora_absolute_x", "asl_absolute_x", "unimplemented",
      "jsr_absolute", "and_indirect_x", "unimplemented", "unimplemented",
      "bit_zero_page", "and_zero_page", "rol_zero_page", "unimplemented",
      "plp_implied", "and_immediate", "rol_accumulator", "unimplemented",
      "bit_absolute", "and_absolute", "rol_absolute", "unimplemented",
      "bmi_relative", "and_indirect_y", "unimplemented", "unimplemented",
      "unimplemented", "and_zero_page_x", "rol_zero_page_x", "unimplemented",
      "sec_implied", "and_absolute_y", "unimplemented", "unimplemented",
      "unimplemented", "and_absolute_x", "rol_absolute_x", "unimplemented",
      "rti_implied", "eor_indirect_x", "unimplemented", "unimplemented",
      "unimplemented", "eor_zero_page", "lsr_zero_page", "unimplemented",
      "pha_implied", "eor_immediate", "lsr_accumulator", "unimplemented",
      "jmp_absolute", "eor_absolute", "lsr_absolute", "unimplemented",
      "bvc_relative", "eor_indirect_y", "unimplemented", "unimplemented",
      "unimplemented", "eor_zero_page_x", "lsr_zero_page_x", "unimplemented",
      "cli_implied", "eor_absolute_y", "unimplemented", "unimplemented",
      "unimplemented", "eor_absolute_x", "lsr_absolute_x", "unimplemented",
      "rts_implied", "adc_indirect_x", "unimplemented", "unimplemented",
      "unimplemented", "adc_zero_page", "ror_zero_page", "unimplemented",
      "pla_implied", "adc_immediate", "ror_accumulator", "unimplemented",
      "jmp_indirect", "adc_absolute", "ror_absolute", "unimplemented",
      "bvs_relative", "adc_indirect_y", "unimplemented", "unimplemented",
      "unimplemented", "adc_zero_page_x", "ror_zero_page_x", "unimplemented",
      "sei_implied", "adc_absolute_y", "unimplemented", "unimplemented",
      "unimplemented", "adc_absolute_x", "ror_absolute_x", "unimplemented",
      "unimplemented", "sta_indirect_x", "unimplemented", "unimplemented",
      "sty_zero_page", "sta_zero_page", "stx_zero_page", "unimplemented",
      "dey_implied", "unimplemented", "txa_implied", "unimplemented",
      "sty_absolute", "sta_absolute", "stx_absolute", "unimplemented",
      "bcc_relative", "sta_indirect_y", "unimplemented", "unimplemented",
      "sty_zero_page_x", "sta_zero_page_x", "stx_zero_page_y", "unimplemented",
      "tya_implied", "unimplemented", "txs_implied", "unimplemented",
      "unimplemented", "sta_absolute_x", "unimplemented", "unimplemented",
      "ldy_immediate", "lda_indirect_x", "ldx_immediate", "unimplemented",
      "ldy_zero_page", "lda_zero_page", "ldx_zero_page", "unimplemented",
      "tay_implied", "lda_immediate", "tax_implied", "unimplemented",
      "ldy_absolute", "lda_absolute", "ldx_absolute", "unimplemented",
      "bcs_relative", "lda_indirect_y", "unimplemented", "unimplemented",
      "ldy_zero_page_x", "lda_zero_page_x", "ldx_zero_page_y", "unimplemented",
      "clv_implied", "lda_absolute_y", "tsx_implied", "unimplemented",
      "ldy_absolute_x", "lda_absolute_x", "ldx_absolute_y", "unimplemented",
      "cpy_immediate", "cmp_indirect_x", "unimplemented", "unimplemented",
      "cpy_zero_page", "cmp_zero_page", "dec_zero_page", "unimplemented",
      "iny_implied", "cmp_immediate", "dex_implied", "unimplemented",
      "cpy_absolute", "cmp_absolute", "dec_absolute", "unimplemented",
      "bne_relative", "cmp_indirect_y", "unimplemented", "unimplemented",
      "unimplemented", "cmp_zero_page_x", "dec_zero_page_x", "unimplemented",
      "cld_implied", "cmp_absolute_y", "unimplemented", "unimplemented",
      "unimplemented", "cmp_absolute_x", "dec_absolute_x", "unimplemented",
      "cpx_immediate", "sbc_indirect_x", "unimplemented", "unimplemented",
      "cpx_zero_page", "sbc_zero_page", "inc_zero_page", "unimplemented",
      "inx_implied", "sbc_immediate", "nop_implied", "unimplemented",
      "cpx_absolute", "sbc_absolute", "inc_absolute", "unimplemented",
      "beq_relative", "sbc_indirect_y", "unimplemented", "unimplemented",
      "unimplemented", "sbc_zero_page_x", "inc_zero_page_x", "unimplemented",
      "sed_implied", "sbc_absolute_y", "unimplemented", "unimplemented",
      "unimplemented", "sbc_absolute_x", "inc_absolute_x", "unimplemented"
    >>

\* The handlers of cpu.rs, by name: what `instruction(self)` runs.
instruction(name, m) ==
    CASE name = "nop_implied" ->
           fetch_implied(m)
      [] name = "clc_implied" ->
           set_flag(fetch_implied(m), CARRY, FALSE)
      [] name = "cld_implied" ->
           set_flag(fetch_implied(m), DECIMAL_MODE, FALSE)
      [] name = "cli_implied" ->
           set_flag(fetch_implied(m), INTERRUPT_DISABLE, FALSE)
      [] name = "clv_implied" ->
           set_flag(fetch_implied(m), OVERFLOW, FALSE)
      [] name = "sec_implied" ->
           set_flag(fetch_implied(m), CARRY, TRUE)
      [] name = "sed_implied" ->
           set_flag(fetch_implied(m), DECIMAL_MODE, TRUE)
      [] name = "sei_implied" ->
           set_flag(fetch_implied(m), INTERRUPT_DISABLE, TRUE)
      [] name = "inx_implied" ->
           step_register(m, "x", wrapping_add(m.x, 1))
      [] name = "iny_implied" ->
           step_register(m, "y", wrapping_add(m.y, 1))
      [] name = "dex_implied" ->
           step_register(m, "x", wrapping_sub(m.x, 1))
      [] name = "dey_implied" ->
           step_register(m, "y", wrapping_sub(m.y, 1))
      [] name = "tax_implied" ->
           transfer(m, "x", "a")
      [] name = "tay_implied" ->
           transfer(m, "y", "a")
      [] name = "txa_implied" ->
           transfer(m, "a", "x")
      [] name = "tya_implied" ->
           transfer(m, "a", "y")
      [] name = "tsx_implied" ->
           transfer(m, "x", "sp")
      [] name = "txs_implied" ->
           transfer(m, "sp", "x")
      [] name = "inc_zero_page" ->
           LET with_address(address) == inc(address.m, address.v)
           IN with_address(fetch_zero_page(m))
      [] name = "inc_zero_page_x" ->
           LET with_address(address) == inc(address.m, address.v)
           IN with_address(fetch_zero_page_x(m))
      [] name = "inc_absolute" ->
           LET with_address(address) == inc(address.m, address.v)
           IN with_address(fetch_absolute(m))
      [] name = "inc_absolute_x" ->
           LET with_address(address) == inc(address.m, address.v)
           IN with_address(fetch_absolute_x_write(m))
      [] name = "dec_zero_page" ->
           LET with_address(address) == dec(address.m, address.v)
           IN with_address(fetch_zero_page(m))
      [] name = "dec_zero_page_x" ->
           LET with_address(address) == dec(address.m, address.v)
           IN with_address(fetch_zero_page_x(m))
      [] name = "dec_absolute" ->
           LET with_address(address) == dec(address.m, address.v)
           IN with_address(fetch_absolute(m))
      [] name = "dec_absolute_x" ->
           LET with_address(address) == dec(address.m, address.v)
           IN with_address(fetch_absolute_x_write(m))
      [] name = "asl_accumulator" ->
           LET with_result(result) == Set(result.m, "a", result.v)
               with_value(value) == with_result(asl(value.m, value.v))
           IN with_value(fetch_accumulator(m))
      [] name = "asl_zero_page" ->
           LET with_address(address) == asl_mem(address.m, address.v)
           IN with_address(fetch_zero_page(m))
      [] name = "asl_zero_page_x" ->
           LET with_address(address) == asl_mem(address.m, address.v)
           IN with_address(fetch_zero_page_x(m))
      [] name = "asl_absolute" ->
           LET with_address(address) == asl_mem(address.m, address.v)
           IN with_address(fetch_absolute(m))
      [] name = "asl_absolute_x" ->
           LET with_address(address) == asl_mem(address.m, address.v)
           IN with_address(fetch_absolute_x_write(m))
      [] name = "lsr_accumulator" ->
           LET with_result(result) == Set(result.m, "a", result.v)
               with_value(value) == with_result(lsr(value.m, value.v))
           IN with_value(fetch_accumulator(m))
      [] name = "lsr_zero_page" ->
           LET with_address(address) == lsr_mem(address.m, address.v)
           IN with_address(fetch_zero_page(m))
      [] name = "lsr_zero_page_x" ->
           LET with_address(address) == lsr_mem(address.m, address.v)
           IN with_address(fetch_zero_page_x(m))
      [] name = "lsr_absolute" ->
           LET with_address(address) == lsr_mem(address.m, address.v)
           IN with_address(fetch_absolute(m))
      [] name = "lsr_absolute_x" ->
           LET with_address(address) == lsr_mem(address.m, address.v)
           IN with_address(fetch_absolute_x_write(m))
      [] name = "rol_accumulator" ->
           LET with_result(result) == Set(result.m, "a", result.v)
               with_value(value) == with_result(rol(value.m, value.v))
           IN with_value(fetch_accumulator(m))
      [] name = "rol_zero_page" ->
           LET with_address(address) == rol_mem(address.m, address.v)
           IN with_address(fetch_zero_page(m))
      [] name = "rol_zero_page_x" ->
           LET with_address(address) == rol_mem(address.m, address.v)
           IN with_address(fetch_zero_page_x(m))
      [] name = "rol_absolute" ->
           LET with_address(address) == rol_mem(address.m, address.v)
           IN with_address(fetch_absolute(m))
      [] name = "rol_absolute_x" ->
           LET with_address(address) == rol_mem(address.m, address.v)
           IN with_address(fetch_absolute_x_write(m))
      [] name = "ror_accumulator" ->
           LET with_result(result) == Set(result.m, "a", result.v)
               with_value(value) == with_result(ror(value.m, value.v))
           IN with_value(fetch_accumulator(m))
      [] name = "ror_zero_page" ->
           LET with_address(address) == ror_mem(address.m, address.v)
           IN with_address(fetch_zero_page(m))
      [] name = "ror_zero_page_x" ->
           LET with_address(address) == ror_mem(address.m, address.v)
           IN with_address(fetch_zero_page_x(m))
      [] name = "ror_absolute" ->
           LET with_address(address) == ror_mem(address.m, address.v)
           IN with_address(fetch_absolute(m))
      [] name = "ror_absolute_x" ->
           LET with_address(address) == ror_mem(address.m, address.v)
           IN with_address(fetch_absolute_x_write(m))
      [] name = "lda_immediate" ->
           LET with_value(value) == lda(value.m, value.v)
           IN with_value(fetch_immediate(m))
      [] name = "lda_zero_page" ->
           LET with_value(value) == lda(value.m, value.v)
               with_address(address) == with_value(read(address.m, address.v))
           IN with_address(fetch_zero_page(m))
      [] name = "lda_zero_page_x" ->
           LET with_value(value) == lda(value.m, value.v)
               with_address(address) == with_value(read(address.m, address.v))
           IN with_address(fetch_zero_page_x(m))
      [] name = "lda_absolute" ->
           LET with_value(value) == lda(value.m, value.v)
               with_address(address) == with_value(read(address.m, address.v))
           IN with_address(fetch_absolute(m))
      [] name = "lda_absolute_x" ->
           LET with_value(value) == lda(value.m, value.v)
               with_address(address) == with_value(read(address.m, address.v))
           IN with_address(fetch_absolute_x_read(m))
      [] name = "lda_absolute_y" ->
           LET with_value(value) == lda(value.m, value.v)
               with_address(address) == with_value(read(address.m, address.v))
           IN with_address(fetch_absolute_y_read(m))
      [] name = "lda_indirect_x" ->
           LET with_value(value) == lda(value.m, value.v)
               with_address(address) == with_value(read(address.m, address.v))
           IN with_address(fetch_indirect_x(m))
      [] name = "lda_indirect_y" ->
           LET with_value(value) == lda(value.m, value.v)
               with_address(address) == with_value(read(address.m, address.v))
           IN with_address(fetch_indirect_y_read(m))
      [] name = "ldx_immediate" ->
           LET with_value(value) == ldx(value.m, value.v)
           IN with_value(fetch_immediate(m))
      [] name = "ldx_zero_page" ->
           LET with_value(value) == ldx(value.m, value.v)
               with_address(address) == with_value(read(address.m, address.v))
           IN with_address(fetch_zero_page(m))
      [] name = "ldx_zero_page_y" ->
           LET with_value(value) == ldx(value.m, value.v)
               with_address(address) == with_value(read(address.m, address.v))
           IN with_address(fetch_zero_page_y(m))
      [] name = "ldx_absolute" ->
           LET with_value(value) == ldx(value.m, value.v)
               with_address(address) == with_value(read(address.m, address.v))
           IN with_address(fetch_absolute(m))
      [] name = "ldx_absolute_y" ->
           LET with_value(value) == ldx(value.m, value.v)
               with_address(address) == with_value(read(address.m, address.v))
           IN with_address(fetch_absolute_y_read(m))
      [] name = "ldy_immediate" ->
           LET with_value(value) == ldy(value.m, value.v)
           IN with_value(fetch_immediate(m))
      [] name = "ldy_zero_page" ->
           LET with_value(value) == ldy(value.m, value.v)
               with_address(address) == with_value(read(address.m, address.v))
           IN with_address(fetch_zero_page(m))
      [] name = "ldy_zero_page_x" ->
           LET with_value(value) == ldy(value.m, value.v)
               with_address(address) == with_value(read(address.m, address.v))
           IN with_address(fetch_zero_page_x(m))
      [] name = "ldy_absolute" ->
           LET with_value(value) == ldy(value.m, value.v)
               with_address(address) == with_value(read(address.m, address.v))
           IN with_address(fetch_absolute(m))
      [] name = "ldy_absolute_x" ->
           LET with_value(value) == ldy(value.m, value.v)
               with_address(address) == with_value(read(address.m, address.v))
           IN with_address(fetch_absolute_x_read(m))
      [] name = "adc_immediate" ->
           LET with_value(value) == adc(value.m, value.v)
           IN with_value(fetch_immediate(m))
      [] name = "adc_zero_page" ->
           LET with_value(value) == adc(value.m, value.v)
               with_address(address) == with_value(read(address.m, address.v))
           IN with_address(fetch_zero_page(m))
      [] name = "adc_zero_page_x" ->
           LET with_value(value) == adc(value.m, value.v)
               with_address(address) == with_value(read(address.m, address.v))
           IN with_address(fetch_zero_page_x(m))
      [] name = "adc_absolute" ->
           LET with_value(value) == adc(value.m, value.v)
               with_address(address) == with_value(read(address.m, address.v))
           IN with_address(fetch_absolute(m))
      [] name = "adc_absolute_x" ->
           LET with_value(value) == adc(value.m, value.v)
               with_address(address) == with_value(read(address.m, address.v))
           IN with_address(fetch_absolute_x_read(m))
      [] name = "adc_absolute_y" ->
           LET with_value(value) == adc(value.m, value.v)
               with_address(address) == with_value(read(address.m, address.v))
           IN with_address(fetch_absolute_y_read(m))
      [] name = "adc_indirect_x" ->
           LET with_value(value) == adc(value.m, value.v)
               with_address(address) == with_value(read(address.m, address.v))
           IN with_address(fetch_indirect_x(m))
      [] name = "adc_indirect_y" ->
           LET with_value(value) == adc(value.m, value.v)
               with_address(address) == with_value(read(address.m, address.v))
           IN with_address(fetch_indirect_y_read(m))
      [] name = "sbc_immediate" ->
           LET with_value(value) == sbc(value.m, value.v)
           IN with_value(fetch_immediate(m))
      [] name = "sbc_zero_page" ->
           LET with_value(value) == sbc(value.m, value.v)
               with_address(address) == with_value(read(address.m, address.v))
           IN with_address(fetch_zero_page(m))
      [] name = "sbc_zero_page_x" ->
           LET with_value(value) == sbc(value.m, value.v)
               with_address(address) == with_value(read(address.m, address.v))
           IN with_address(fetch_zero_page_x(m))
      [] name = "sbc_absolute" ->
           LET with_value(value) == sbc(value.m, value.v)
               with_address(address) == with_value(read(address.m, address.v))
           IN with_address(fetch_absolute(m))
      [] name = "sbc_absolute_x" ->
           LET with_value(value) == sbc(value.m, value.v)
               with_address(address) == with_value(read(address.m, address.v))
           IN with_address(fetch_absolute_x_read(m))
      [] name = "sbc_absolute_y" ->
           LET with_value(value) == sbc(value.m, value.v)
               with_address(address) == with_value(read(address.m, address.v))
           IN with_address(fetch_absolute_y_read(m))
      [] name = "sbc_indirect_x" ->
           LET with_value(value) == sbc(value.m, value.v)
               with_address(address) == with_value(read(address.m, address.v))
           IN with_address(fetch_indirect_x(m))
      [] name = "sbc_indirect_y" ->
           LET with_value(value) == sbc(value.m, value.v)
               with_address(address) == with_value(read(address.m, address.v))
           IN with_address(fetch_indirect_y_read(m))
      [] name = "and_immediate" ->
           LET with_value(value) == and(value.m, value.v)
           IN with_value(fetch_immediate(m))
      [] name = "and_zero_page" ->
           LET with_value(value) == and(value.m, value.v)
               with_address(address) == with_value(read(address.m, address.v))
           IN with_address(fetch_zero_page(m))
      [] name = "and_zero_page_x" ->
           LET with_value(value) == and(value.m, value.v)
               with_address(address) == with_value(read(address.m, address.v))
           IN with_address(fetch_zero_page_x(m))
      [] name = "and_absolute" ->
           LET with_value(value) == and(value.m, value.v)
               with_address(address) == with_value(read(address.m, address.v))
           IN with_address(fetch_absolute(m))
      [] name = "and_absolute_x" ->
           LET with_value(value) == and(value.m, value.v)
               with_address(address) == with_value(read(address.m, address.v))
           IN with_address(fetch_absolute_x_read(m))
      [] name = "and_absolute_y" ->
           LET with_value(value) == and(value.m, value.v)
               with_address(address) == with_value(read(address.m, address.v))
           IN with_address(fetch_absolute_y_read(m))
      [] name = "and_indirect_x" ->
           LET with_value(value) == and(value.m, value.v)
               with_address(address) == with_value(read(address.m, address.v))
           IN with_address(fetch_indirect_x(m))
      [] name = "and_indirect_y" ->
           LET with_value(value) == and(value.m, value.v)
               with_address(address) == with_value(read(address.m, address.v))
           IN with_address(fetch_indirect_y_read(m))
      [] name = "eor_immediate" ->
           LET with_value(value) == eor(value.m, value.v)
           IN with_value(fetch_immediate(m))
      [] name = "eor_zero_page" ->
           LET with_value(value) == eor(value.m, value.v)
               with_address(address) == with_value(read(address.m, address.v))
           IN with_address(fetch_zero_page(m))
      [] name = "eor_zero_page_x" ->
           LET with_value(value) == eor(value.m, value.v)
               with_address(address) == with_value(read(address.m, address.v))
           IN with_address(fetch_zero_page_x(m))
      [] name = "eor_absolute" ->
           LET with_value(value) == eor(value.m, value.v)
               with_address(address) == with_value(read(address.m, address.v))
           IN with_address(fetch_absolute(m))
      [] name = "eor_absolute_x" ->
           LET with_value(value) == eor(value.m, value.v)
               with_address(address) == with_value(read(address.m, address.v))
           IN with_address(fetch_absolute_x_read(m))
      [] name = "eor_absolute_y" ->
           LET with_value(value) == eor(value.m, value.v)
               with_address(address) == with_value(read(address.m, address.v))
           IN with_address(fetch_absolute_y_read(m))
      [] name = "eor_indirect_x" ->
           LET with_value(value) == eor(value.m, value.v)
               with_address(address) == with_value(read(address.m, address.v))
           IN with_address(fetch_indirect_x(m))
      [] name = "eor_indirect_y" ->
           LET with_value(value) == eor(value.m, value.v)
               with_address(address) == with_value(read(address.m, address.v))
           IN with_address(fetch_indirect_y_read(m))
      [] name = "ora_immediate" ->
           LET with_value(value) == ora(value.m, value.v)
           IN with_value(fetch_immediate(m))
      [] name = "ora_zero_page" ->
           LET with_value(value) == ora(value.m, value.v)
               with_address(address) == with_value(read(address.m, address.v))
           IN with_address(fetch_zero_page(m))
      [] name = "ora_zero_page_x" ->
           LET with_value(value) == ora(value.m, value.v)
               with_address(address) == with_value(read(address.m, address.v))
           IN with_address(fetch_zero_page_x(m))
      [] name = "ora_absolute" ->
           LET with_value(value) == ora(value.m, value.v)
               with_address(address) == with_value(read(address.m, address.v))
           IN with_address(fetch_absolute(m))
      [] name = "ora_absolute_x" ->
           LET with_value(value) == ora(value.m, value.v)
               with_address(address) == with_value(read(address.m, address.v))
           IN with_address(fetch_absolute_x_read(m))
      [] name = "ora_absolute_y" ->
           LET with_value(value) == ora(value.m, value.v)
               with_address(address) == with_value(read(address.m, address.v))
           IN with_address(fetch_absolute_y_read(m))
      [] name = "ora_indirect_x" ->
           LET with_value(value) == ora(value.m, value.v)
               with_address(address) == with_value(read(address.m, address.v))
           IN with_address(fetch_indirect_x(m))
      [] name = "ora_indirect_y" ->
           LET with_value(value) == ora(value.m, value.v)
               with_address(address) == with_value(read(address.m, address.v))
           IN with_address(fetch_indirect_y_read(m))
      [] name = "bit_zero_page" ->
           LET with_value(value) == bit(value.m, value.v)
               with_address(address) == with_value(read(address.m, address.v))
           IN with_address(fetch_zero_page(m))
      [] name = "bit_absolute" ->
           LET with_value(value) == bit(value.m, value.v)
               with_address(address) == with_value(read(address.m, address.v))
           IN with_address(fetch_absolute(m))
      [] name = "cmp_immediate" ->
           LET with_value(value) == cmp(value.m, value.m.a, value.v)
           IN with_value(fetch_immediate(m))
      [] name = "cmp_zero_page" ->
           LET with_value(value) == cmp(value.m, value.m.a, value.v)
               with_address(address) == with_value(read(address.m, address.v))
           IN with_address(fetch_zero_page(m))
      [] name = "cmp_zero_page_x" ->
           LET with_value(value) == cmp(value.m, value.m.a, value.v)
               with_address(address) == with_value(read(address.m, address.v))
           IN with_address(fetch_zero_page_x(m))
      [] name = "cmp_absolute" ->
           LET with_value(value) == cmp(value.m, value.m.a, value.v)
               with_address(address) == with_value(read(address.m, address.v))
           IN with_address(fetch_absolute(m))
      [] name = "cmp_absolute_x" ->
           LET with_value(value) == cmp(value.m, value.m.a, value.v)
               with_address(address) == with_value(read(address.m, address.v))
           IN with_address(fetch_absolute_x_read(m))
      [] name = "cmp_absolute_y" ->
           LET with_value(value) == cmp(value.m, value.m.a, value.v)
               with_address(address) == with_value(read(address.m, address.v))
           IN with_address(fetch_absolute_y_read(m))
      [] name = "cmp_indirect_x" ->
           LET with_value(value) == cmp(value.m, value.m.a, value.v)
               with_address(address) == with_value(read(address.m, address.v))
           IN with_address(fetch_indirect_x(m))
      [] name = "cmp_indirect_y" ->
           LET with_value(value) == cmp(value.m, value.m.a, value.v)
               with_address(address) == with_value(read(address.m, address.v))
           IN with_address(fetch_indirect_y_read(m))
      [] name = "cpx_immediate" ->
           LET with_value(value) == cmp(value.m, value.m.x, value.v)
           IN with_value(fetch_immediate(m))
      [] name = "cpx_zero_page" ->
           LET with_value(value) == cmp(value.m, value.m.x, value.v)
               with_address(address) == with_value(read(address.m, address.v))
           IN with_address(fetch_zero_page(m))
      [] name = "cpx_absolute" ->
           LET with_value(value) == cmp(value.m, value.m.x, value.v)
               with_address(address) == with_value(read(address.m, address.v))
           IN with_address(fetch_absolute(m))
      [] name = "cpy_immediate" ->
           LET with_value(value) == cmp(value.m, value.m.y, value.v)
           IN with_value(fetch_immediate(m))
      [] name = "cpy_zero_page" ->
           LET with_value(value) == cmp(value.m, value.m.y, value.v)
               with_address(address) == with_value(read(address.m, address.v))
           IN with_address(fetch_zero_page(m))
      [] name = "cpy_absolute" ->
           LET with_value(value) == cmp(value.m, value.m.y, value.v)
               with_address(address) == with_value(read(address.m, address.v))
           IN with_address(fetch_absolute(m))
      [] name = "sta_zero_page" ->
           LET with_address(address) == sta(address.m, address.v)
           IN with_address(fetch_zero_page(m))
      [] name = "sta_zero_page_x" ->
           LET with_address(address) == sta(address.m, address.v)
           IN with_address(fetch_zero_page_x(m))
      [] name = "sta_absolute" ->
           LET with_address(address) == sta(address.m, address.v)
           IN with_address(fetch_absolute(m))
      [] name = "sta_absolute_x" ->
           LET with_address(address) == sta(address.m, address.v)
           IN with_address(fetch_absolute_x_write(m))
      [] name = "sta_indirect_x" ->
           LET with_address(address) == sta(address.m, address.v)
           IN with_address(fetch_indirect_x(m))
      [] name = "sta_indirect_y" ->
           LET with_address(address) == sta(address.m, address.v)
           IN with_address(fetch_indirect_y_write(m))
      [] name = "stx_zero_page" ->
           LET with_address(address) == sta(address.m, address.v)
           IN with_address(fetch_zero_page(m))
      [] name = "stx_zero_page_y" ->
           LET with_address(address) == sta(address.m, address.v)
           IN with_address(fetch_zero_page_y(m))
      [] name = "stx_absolute" ->
           LET with_address(address) == sta(address.m, address.v)
           IN with_address(fetch_absolute(m))
      [] name = "sty_zero_page" ->
           LET with_address(address) == sta(address.m, address.v)
           IN with_address(fetch_zero_page(m))
      [] name = "sty_zero_page_x" ->
           LET with_address(address) == sta(address.m, address.v)
           IN with_address(fetch_zero_page_x(m))
      [] name = "sty_absolute" ->
           LET with_address(address) == sta(address.m, address.v)
           IN with_address(fetch_absolute(m))
      [] name = "pha_implied" ->
           pha_implied(m)
      [] name = "php_implied" ->
           php_implied(m)
      [] name = "pla_implied" ->
           pla_implied(m)
      [] name = "plp_implied" ->
           plp_implied(m)
      [] name = "bcc_relative" ->
           branch(m, ~get_carry_flag(m))
      [] name = "bcs_relative" ->
           branch(m, get_carry_flag(m))
      [] name = "bne_relative" ->
           branch(m, ~get_zero_result_flag(m))
      [] name = "beq_relative" ->
           branch(m, get_zero_result_flag(m))
      [] name = "bpl_relative" ->
           branch(m, ~get_negative_result_flag(m))
      [] name = "bmi_relative" ->
           branch(m, get_negative_result_flag(m))
      [] name = "bvc_relative" ->
           branch(m, ~get_overflow_flag(m))
      [] name = "bvs_relative" ->
           branch(m, get_overflow_flag(m))
      [] name = "brk_implied" ->
           brk_implied(m)
      [] name = "jsr_absolute" ->
           jsr_absolute(m)
      [] name = "rts_implied" ->
           rts_implied(m)
      [] name = "rti_implied" ->
           rti_implied(m)
      [] name = "jmp_absolute" ->
           jmp_absolute(m)
      [] name = "jmp_indirect" ->
           jmp_indirect(m)
      [] name = "unimplemented" ->
           unimplemented(m)


\* A decode that consults no table: it reads nothing and never fails.
decode_without_tables(m) == Ret(m, <<>>)

\* decode: the bytes of the instruction at PC, read for the trace line
\* through the bus's own read, outside the cycle accounting.
decode(m) ==
    LET first(opcode) ==
          LET addressing_mode == ADDRESSING_MODES[opcode.v + 1]
              \* formatting the mnemonic calls Instruction::as_str
              named(r) == IF MNEMONICS[opcode.v + 1] = "Unimplemented"
                          THEN Ret(Panic(r.m, <<"not implemented">>), r.v)
                          ELSE r
              second(b1) ==
                LET third(b2) == named(Ret(b2.m, <<opcode.v, b1.v, b2.v>>))
                IN IF addressing_mode \in {"Absolute", "AbsoluteX", "AbsoluteY",
                                           "IndirectAbsolute"}
                   THEN third(bus_read(b1.m, wrapping_add16(m.pc, 2), "trace"))
                   ELSE named(Ret(b1.m, <<opcode.v, b1.v>>))
          IN IF Panicked(opcode.m) THEN Ret(opcode.m, <<>>)
             ELSE IF addressing_mode = "Unimplemented"
             THEN Ret(Panic(opcode.m, <<"not implemented: Encountered opcode",
                                        opcode.v, m.pc>>), <<>>)
             ELSE IF addressing_mode \in {"Accumulator", "Implied"}
             THEN named(Ret(opcode.m, <<opcode.v>>))
             ELSE second(bus_read(opcode.m, wrapping_add16(m.pc, 1), "trace"))
    IN first(bus_read(m, m.pc, "trace"))

\* A step that fetches the opcode before it decodes: an unimplemented opcode
\* is then met with PC and the cycle counter already advanced.
step_fetch_first(m) ==
    LET trace(m1) == read_range(m1, stack_address(m1) + 1, 511, "trace")
        execute(opcode) ==
          IF Panicked(opcode.m) THEN opcode.m
          ELSE instruction(INSTRUCTIONS[opcode.v + 1], opcode.m)
        decoded(opcode) == execute(Ret(trace(decode(opcode.m).m), opcode.v))
    IN decoded(fetch(m))

step(m) ==
    LET \* println!: the last argument reads the stack for the trace line
        trace(m1) == read_range(m1, stack_address(m1) + 1, 511, "trace")
        execute(opcode) ==
          IF Panicked(opcode.m) THEN opcode.m
          ELSE instruction(INSTRUCTIONS[opcode.v + 1], opcode.m)
    IN execute(fetch(trace(decode(m).m)))

\* A reset that adds its cycles to the counter instead of setting it: a
\* second reset then differs from the first.
reset_accumulating(m) ==
    LET low(pcl) ==
          LET high(pch) ==
                Set(Set(pch.m, "pc", from_be_bytes(pch.v, pcl.v)),
                    "cycle", m.cycle + INITIAL_CYCLE)
          IN high(bus_read(pcl.m, 65533, "reset"))
    IN low(bus_read(m, 65532, "reset"))

reset(m) ==
    LET low(pcl) ==
          LET high(pch) ==
                Set(Set(pch.m, "pc", from_be_bytes(pch.v, pcl.v)),
                    "cycle", INITIAL_CYCLE)
          IN high(bus_read(pcl.m, 65533, "reset"))
    IN low(bus_read(m, 65532, "reset"))

\* ------------------------------------------------------------ cartridges
\* An NROM cartridge with 16 KiB of PRG-ROM: `code` at CPU address `org`,
\* the reset vector pointing at `start`, `fill` everywhere else.
NROM_128 == 16 * 1024

Image(org, code, start, fill) ==
    LET at(i) == (org + i - 1) % NROM_128
        vector == {65532 % NROM_128, 65533 % NROM_128}
    IN [len |-> NROM_128, fill |-> fill,
        cells |-> [j \in {at(i) : i \in 1..Len(code)} \cup vector |->
                      IF j = 65532 % NROM_128 THEN start % 256
                      ELSE IF j = 65533 % NROM_128 THEN start \div 256
                      ELSE code[CHOOSE i \in 1..Len(code) : at(i) = j]]]

EmptyVec(fill) == [fill |-> fill, cells |-> [j \in {} |-> 0]]

\* One instruction at $8000: every opcode, with operand bytes $10 $00.
SingleInstructionImages ==
    {Image(32768, <<op, 16, 0>>, 32768, 2) : op \in 0..255}

\* LDX #sp0; TXS; then PHA or PHP: a push from each sampled stack pointer.
PushImages ==
    {Image(32768, <<162, sp0, 154, op>>, 32768, 2) : sp0 \in {0, 1, 255}, op \in {72, 8}}

\* LDA #v; STA $01FE; LDX #$FE; TXS; PLP: the byte v is pulled into P.
PullImages ==
    {Image(32768, <<169, v, 141, 254, 1, 162, 254, 154, op>>, 32768, 2) :
        v \in {0, 32, 195, 255}, op \in {40}}

\* A branch at `org` or behind a flag-setting prelude, with each sampled offset.
BranchOpcodes == {16, 48, 80, 112, 144, 176, 208, 240}

BranchImages ==
    {Image(org, prelude \o <<op, off>>, org, 2) :
        op \in BranchOpcodes, org \in {32768, 33020},
        off \in {2, 16, 127, 128, 240},
        prelude \in {<<>>, <<56>>, <<169, 128>>, <<169, 0>>}}

\* LDA #lo; STA ptr; LDA #hi; STA ptr'; JMP (ptr), ptr' the address the
\* 6502 reads the high byte from.
JmpIndirectImages ==
    {Image(32768, <<169, 52, 141, ial, iah, 169, 18, 141, (ial + 1) % 256, iah,
                    108, ial, iah>>, 32768, 2) :
        ial \in {0, 128, 254, 255}, iah \in {2, 7, 96}}

\* LDX #xv; LDA #v; STA ea; SEC or CLC; then a read-modify-write
\* instruction on the same operand in the same addressing mode.
RmwOpcodes ==
    {230, 246, 238, 254, 198, 214, 206, 222, 6, 22, 14, 30,
     70, 86, 78, 94, 38, 54, 46, 62, 102, 118, 110, 126}

StaLike(op) ==
    LET mode == ADDRESSING_MODES[op + 1]
    IN IF mode = "ZeroPage" THEN 133
       ELSE IF mode = "ZeroPageX" THEN 149
       ELSE IF mode = "Absolute" THEN 141 ELSE 157

Operands(op, lo, hi) ==
    IF ADDRESSING_MODES[op + 1] \in {"ZeroPage", "ZeroPageX"} THEN <<lo>> ELSE <<lo, hi>>

RmwImages ==
    {Image(32768, <<162, xv, 169, v, StaLike(op)>> \o Operands(op, 240, hi)
                  \o <<flag, op>> \o Operands(op, 240, hi), 32768, 2) :
        op \in RmwOpcodes, xv \in {0, 32}, v \in {0, 1, 129, 255},
        hi \in {2, 96}, flag \in {24, 56}}

\* ---------------------------------------------------------------- actions
\* Cpu::new over a fresh CpuBus: Registers::default(), cycle 0, zeroed RAM.
InitWith(images) ==
    /\ pc = 0 /\ sp = 255 /\ ps = 32 /\ a = 0 /\ x = 0 /\ y = 0
    /\ cycle = 0
    /\ wram = EmptyVec(0)
    /\ prg_ram = EmptyVec(0)
    /\ prg_rom \in images
    /\ bus_log = <<>>
    /\ panic = NoPanic
    /\ overflow_checks \in BOOLEAN
    /\ prev_call = "none"
    /\ last_call = "new"
    /\ resets = 0
    /\ calls = <<>>
    /\ bank = 0 /\ args = <<>> /\ returned = <<>>

\* `calls` records the calls made since construction for as long as they are
\* one reset followed by steps, and <<"other">> after any other history.
Becomes(n, call) ==
    /\ pc' = n.pc /\ sp' = n.sp /\ ps' = n.ps /\ a' = n.a /\ x' = n.x /\ y' = n.y
    /\ cycle' = n.cycle
    /\ wram' = n.wram /\ prg_ram' = n.prg_ram /\ prg_rom' = n.prg_rom
    /\ bus_log' = n.log
    /\ panic' = n.panic
    /\ prev_call' = last_call
    /\ last_call' = call
    /\ calls' = IF (calls = <<>> /\ call = "reset")
                    \/ (calls # <<>> /\ calls[1] = "reset" /\ call = "step")
                 THEN Append(calls, call)
                 ELSE <<"other">>
    /\ UNCHANGED <<overflow_checks, bank, args, returned>>

\* Console::reset
Reset ==
    /\ panic = NoPanic
    /\ resets < MaxResets
    /\ Becomes(reset(Machine), "reset")
    /\ resets' = resets + 1

\* Console::step (Ppu::step does nothing)
Step ==
    /\ panic = NoPanic
    /\ cycle < MaxCycle
    /\ Becomes(step(Machine), "step")
    /\ UNCHANGED resets

Next == Reset \/ Step

\* Every opcode once, and the stack instructions from chosen stack pointers.
Init == InitWith(SingleInstructionImages \cup PushImages \cup PullImages)

Spec == Init /\ [][Next]_vars

InitBranch == InitWith(BranchImages)

SpecBranch == InitBranch /\ [][Next]_vars

InitJmpIndirect == InitWith(JmpIndirectImages)

SpecJmpIndirect == InitJmpIndirect /\ [][Next]_vars

InitRmw == InitWith(RmwImages)

SpecRmw == InitRmw /\ [][Next]_vars

\* Short programs at $8000 that set registers and flags and then run one
\* instruction:
\*   [SED;] CLC or SEC; LDA #v; ADC or SBC #operand;
\*   LDA #a; LDX #x; LDY #y; then a store of X or Y or a register transfer;
\*   LDX #0; TXS; LDX #1; TSX.
InitPrograms ==
    InitWith(
        {Image(32768, sed \o <<carry, 169, v, op, operand>>, 32768, 2) :
            sed \in {<<>>, <<248>>}, carry \in {24, 56}, v \in {0, 80, 128, 255},
            op \in {105, 233}, operand \in {0, 1, 80, 255}}
        \cup
        {Image(32768, <<169, r[1], 162, r[2], 160, r[3], op, 16, 0>>, 32768, 2) :
            r \in {<<1, 2, 3>>, <<0, 1, 128>>, <<128, 0, 1>>, <<1, 128, 0>>},
            op \in {134, 150, 142, 132, 148, 140, 170, 168, 138, 152, 186, 154}}
        \cup
        {Image(32768, <<162, 0, 154, 162, 1, 186>>, 32768, 2)})

SpecPrograms == InitPrograms /\ [][Next]_vars


\* LDX #i; LDY #i; LDA #bal; STA $10; LDA #bah; STA $11; then a load, a
\* store or an INC in absolute,X, absolute,Y or (zp),Y mode on the base
\* address bah:bal (through the pointer at $10 in (zp),Y mode).
InitIndexed ==
    InitWith(
        {Image(32768, <<162, i, 160, i, 169, bal, 133, 16, 169, bah, 133, 17, op>>
                      \o (IF ADDRESSING_MODES[op + 1] = "IndirectZeroPageY"
                          THEN <<16>> ELSE <<bal, bah>>), 32768, 2) :
            op \in {189, 185, 177, 157, 145, 254},
            i \in {0, 32}, bal \in {16, 240}, bah \in {2, 255}})

SpecIndexed == InitIndexed /\ [][Next]_vars


\* Programs that use the stack, from each sampled stack pointer sp0:
\*   LDA #$60; STA $10; LDX #sp0; TXS; JSR $0010 (an RTS in RAM at $0010),
\*   placed at $8000 and at $80F6 (where the JSR's last byte is at $80FF);
\*   LDX #sp0; TXS; LDA #v; PHA; PLA.
InitSubroutines ==
    InitWith(
        {Image(org, <<169, 96, 133, 16, 162, sp0, 154, 32, 16, 0>>, org, 2) :
            org \in {32768, 33014}, sp0 \in {255, 1, 0}}
        \cup
        {Image(32768, <<162, sp0, 154, 169, v, 72, 104>>, 32768, 2) :
            sp0 \in {255, 0}, v \in {0, 7, 128}})

SpecSubroutines == InitSubroutines /\ [][Next]_vars

\* A 16 KiB image filled with NOP ($EA) whose reset vector is $8000.
InitNop == InitWith({Image(32768, <<>>, 32768, 234)})

SpecNop == InitNop /\ [][Next]_vars


\* ------------------------------------------------ mappers/uxrom.rs: Uxrom
\* The specifications below call a mapper, the header parser, the loader or
\* the console's bus directly: `args` holds the arguments of the last call,
\* `returned` the value it returned (<<>> when it returned none) and `calls`
\* the writes made so far.
MaxWrites == 2

BANK_SIZE == 16 * 1024

\* vec[index]: Rust checks the index against the length.
Index(m, vec, index) ==
    IF index >= 0 /\ index < vec.len THEN Ret(m, VecGet(vec, index))
    ELSE Ret(Panic(m, <<"index out of bounds", vec.len, index>>), 0)

Uxrom_cpu_read(m, address) ==
    IF address \in 32768..49151
    THEN Index(m, m.prg_rom, (address - 32768) + BANK_SIZE * m.bank)
    ELSE IF address \in 49152..65535
         THEN Index(m, m.prg_rom, (m.prg_rom.len - BANK_SIZE) + (address % 49152))
         ELSE Ret(m, 0)

\* A bank register that only writes to the lower window reach.
Uxrom_cpu_write_lower_window(m, address, data) ==
    IF address \in 32768..49151 THEN [m EXCEPT !.bank = data] ELSE m

Uxrom_cpu_write(m, address, data) ==
    IF address \in 32768..65535 THEN [m EXCEPT !.bank = data] ELSE m

\* A PRG-ROM of k banks; the first two bytes and the last byte of every bank
\* tell the bank and the place, every other byte is $FF.
BankedImage(k) ==
    [len |-> k * BANK_SIZE, fill |-> 255,
     cells |-> [j \in {b * BANK_SIZE + o : b \in 0..(k - 1), o \in {0, 1, BANK_SIZE - 1}}
                  |-> (j \div BANK_SIZE) * 4 + (j % 4)]]

\* The registers of a CPU that has made no call.
NoCpu ==
    /\ pc = 0 /\ sp = 255 /\ ps = 32 /\ a = 0 /\ x = 0 /\ y = 0 /\ cycle = 0
    /\ wram = EmptyVec(0) /\ bus_log = <<>> /\ overflow_checks = FALSE
    /\ resets = 0 /\ panic = NoPanic
    /\ prev_call = "none" /\ last_call = "new"
    /\ calls = <<>> /\ returned = <<>>

\* The call `call` with `arguments` has left the machine n and returned
\* `value`, or has panicked.
Returns(n, call, arguments, value) ==
    /\ prg_rom' = n.prg_rom /\ prg_ram' = n.prg_ram /\ bank' = n.bank
    /\ wram' = n.wram /\ cycle' = n.cycle /\ bus_log' = n.log
    /\ panic' = n.panic
    /\ prev_call' = last_call /\ last_call' = call
    /\ args' = arguments
    /\ returned' = IF Panicked(n) THEN <<>> ELSE value
    /\ UNCHANGED <<pc, sp, ps, a, x, y, overflow_checks, resets>>

\* Uxrom::new with 1, 2 or 16 banks
InitUxrom ==
    /\ NoCpu
    /\ prg_rom \in {BankedImage(k) : k \in {1, 2, 16}} /\ bank = 0
    /\ prg_ram = EmptyVec(0)
    /\ args = <<>>

UxromCpuRead ==
    /\ panic = NoPanic
    /\ \E address \in {32767, 32768, 32769, 49151, 49152, 49153, 65535} :
          LET done(r) == Returns(r.m, "cpu_read", <<address>>, <<r.v>>)
          IN done(Uxrom_cpu_read(Machine, address))
    /\ UNCHANGED calls

UxromCpuWrite ==
    /\ panic = NoPanic
    /\ Len(calls) < MaxWrites
    /\ \E address \in {24576, 32768, 65535}, data \in {0, 1, 2, 15, 16, 255} :
          /\ Returns(Uxrom_cpu_write(Machine, address, data), "cpu_write",
                     <<address, data>>, <<>>)
          /\ calls' = Append(calls, <<address, data>>)

SpecUxrom == InitUxrom /\ [][UxromCpuRead \/ UxromCpuWrite]_vars

\* ------------------------------------------------- ines.rs: parse_header
\* header[i] of the source is byte(header, i).
byte(header, i) == header[i + 1]

MIRRORING_VERTICAL_MASK == 1
MIRRORING_FOUR_SCREEN_MASK == 8
HAS_BATTERY_MASK == 2
HAS_TRAINER_MASK == 4

\* `2 ^ exponent * (multiplier * 2 + 1)`: in Rust ^ is exclusive or and binds
\* more loosely than *.
exponent_multiplier(size_lsb) ==
    BitXor(2, BitAnd(size_lsb, 252) * (BitAnd(size_lsb, 3) * 2 + 1))

file_format(header) ==
    IF BitAnd(byte(header, 7), 12) = 8 THEN "Nes20" ELSE "INes"

prg_rom_size(header, format) ==
    LET multiplier == 16 * 1024
        size_lsb == byte(header, 4)
        size_msb == BitAnd(byte(header, 9), 15) * 256
    IN IF format = "INes" THEN byte(header, 4) * multiplier
       ELSE IF size_msb = 3840 THEN exponent_multiplier(size_lsb)
       ELSE BitOr(size_msb, size_lsb) * multiplier

chr_rom_size(header, format) ==
    LET multiplier == 8 * 1024
        size_lsb == byte(header, 5)
        size_msb == BitAnd(byte(header, 9), 240) * 16
    IN IF format = "INes" THEN byte(header, 5) * multiplier
       ELSE IF size_msb = 3840 THEN exponent_multiplier(size_lsb)
       ELSE BitOr(size_msb, size_lsb) * multiplier

\* A mapper number with the two nibbles the other way round.
mapper_id_swapped(header, format) ==
    LET bits_0_3 == BitAnd(byte(header, 7), 240) \div 16
        bits_4_7 == BitAnd(byte(header, 6), 240)
    IN BitOr(bits_4_7, bits_0_3)

mapper_id(header, format) ==
    LET bits_0_3 == BitAnd(byte(header, 6), 240) \div 16
        bits_4_7 == BitAnd(byte(header, 7), 240)
        bits_8_11 == BitAnd(byte(header, 8), 15) * 256
    IN IF format = "INes" THEN BitOr(bits_4_7, bits_0_3)
       ELSE BitOr(bits_8_11, BitOr(bits_4_7, bits_0_3))

\* The Header parse_header builds once the magic has matched.
Header(header) ==
    [format |-> file_format(header),
     prg_rom_size |-> prg_rom_size(header, file_format(header)),
     chr_rom_size |-> chr_rom_size(header, file_format(header)),
     mapper_id |-> mapper_id(header, file_format(header)),
     mirroring |->
        IF BitAnd(byte(header, 6), MIRRORING_FOUR_SCREEN_MASK) # 0 THEN "FourScreen"
        ELSE IF BitAnd(byte(header, 6), MIRRORING_VERTICAL_MASK) # 0 THEN "Vertical"
        ELSE "Horizontal",
     has_trainer |-> BitAnd(byte(header, 6), HAS_TRAINER_MASK) # 0,
     has_battery |-> BitAnd(byte(header, 6), HAS_BATTERY_MASK) # 0]

\* A parser that accepts every input.
parse_header_unchecked(header) == <<"Ok", Header(header)>>

\* The Result parse_header returns for a header of at least ten bytes:
\* <<"Ok", Header>> or <<"Err", message>>.
parse_header(header) ==
    IF SubSeq(header, 1, 4) # <<78, 69, 83, 26>> THEN <<"Err", "bad format">>
    ELSE <<"Ok", Header(header)>>

\* Sixteen-byte inputs: the magic and near misses of it, and sampled size,
\* flag and extension bytes.
Headers ==
    {mg \o <<b4, b5, b6, b7>> \o ext \o <<0, 0, 0, 0, 0, 0>> :
        mg \in {<<78, 69, 83, 26>>, <<78, 69, 83, 0>>, <<0, 69, 83, 26>>,
                <<0, 0, 0, 0>>, <<110, 101, 115, 26>>},
        b4 \in {0, 1, 2, 255}, b5 \in {0, 1, 255},
        b6 \in {0, 1, 2, 4, 8, 9, 16, 240, 255}, b7 \in {0, 4, 8, 12, 16, 240, 248},
        ext \in {<<0, 0>>, <<33, 15>>, <<0, 240>>, <<1, 18>>}}

InitParseHeader ==
    /\ NoCpu
    /\ prg_rom = EmptyVec(0) /\ prg_ram = EmptyVec(0) /\ bank = 0
    /\ args \in {<<header>> : header \in Headers}

ParseHeader ==
    /\ last_call = "new"
    /\ Returns(Machine, "parse_header", args, parse_header(args[1]))
    /\ UNCHANGED calls

SpecParseHeader == InitParseHeader /\ [][ParseHeader]_vars

\* ---------------------------------------------- mapper.rs: Mapper::from_bytes
\* What from_bytes does with the file `bytes`: <<"Ok", mapper>> with the
\* slices <<offset, length>> of the file the mapper is built from, or
\* <<"panic", message>>.
from_bytes(bytes) ==
    LET header == parse_header([i \in 1..16 |-> VecGet(bytes, i - 1)])
        trainer == IF header[2].has_trainer THEN 512 ELSE 0
        prg_rom_len == header[2].prg_rom_size
        chr_rom_len == header[2].chr_rom_size
        roms == [prg_rom |-> <<16 + trainer, prg_rom_len>>,
                 chr_rom |-> <<16 + trainer + prg_rom_len, chr_rom_len>>]
        mid_gt_len == <<"panic", <<"assertion failed: mid <= self.len()">>>>
    IN IF bytes.len < 16 THEN mid_gt_len
       ELSE IF header[1] = "Err"
       THEN <<"panic", <<"called Result::unwrap() on an Err value", header[2]>>>>
       ELSE IF bytes.len - 16 < trainer THEN mid_gt_len
       ELSE IF bytes.len - 16 - trainer < prg_rom_len THEN mid_gt_len
       ELSE IF bytes.len - 16 - trainer - prg_rom_len < chr_rom_len THEN mid_gt_len
       ELSE IF header[2].mapper_id = 0 THEN <<"Ok", [mapper |-> "Nrom"] @@ roms>>
       ELSE IF header[2].mapper_id \in {2, 94, 180}
       THEN <<"Ok", [mapper |-> "Uxrom"] @@ roms>>
       ELSE <<"panic", <<"not implemented">>>>

\* Files of sampled lengths that start with (the first bytes of) a header.
InitFromBytes ==
    /\ NoCpu
    /\ prg_rom = EmptyVec(0) /\ prg_ram = EmptyVec(0) /\ bank = 0
    /\ args \in
         {<<[len |-> n, fill |-> 0,
             cells |-> [j \in 0..((IF n < 16 THEN n ELSE 16) - 1) |-> header[j + 1]]]>> :
            header \in {mg \o <<b4, b5, b6, 0, 0, 0, 0, 0, 0, 0, 0, 0>> :
                          mg \in {<<78, 69, 83, 26>>, <<78, 69, 83, 0>>},
                          b4 \in {0, 1, 2}, b5 \in {0, 1}, b6 \in {0, 4, 16, 32, 36}},
            n \in {0, 15, 16, 527, 528, 16399, 16400, 24591, 24592, 25104, 40976}}

FromBytes ==
    /\ last_call = "new"
    /\ LET done(r) ==
             Returns(IF r[1] = "panic" THEN Panic(Machine, r[2]) ELSE Machine,
                     "from_bytes", args, r)
       IN done(from_bytes(args[1]))
    /\ UNCHANGED calls

SpecFromBytes == InitFromBytes /\ [][FromBytes]_vars

\* ------------------------------------ an NROM cartridge behind the CPU bus
\* Console::from_file with 16 KiB or 32 KiB of PRG-ROM
InitCartridge ==
    /\ NoCpu
    /\ prg_rom \in {BankedImage(k) : k \in {1, 2}}
    /\ prg_ram = EmptyVec(0) /\ bank = 0
    /\ args = <<>>

\* Nrom::cpu_read, called on the mapper
NromCpuRead ==
    /\ panic = NoPanic
    /\ \E address \in {24575, 24576, 32767, 32768, 32769, 49151, 49152, 49153, 65535} :
          Returns(Machine, "cpu_read", <<address>>, <<Nrom_cpu_read(Machine, address)>>)
    /\ UNCHANGED calls

\* Nrom::cpu_write, called on the mapper
NromCpuWrite ==
    /\ panic = NoPanic
    /\ Len(calls) < MaxWrites
    /\ \E address \in {16384, 24576, 32768, 49153}, data \in {1, 2} :
          /\ Returns(Nrom_cpu_write(Machine, address, data), "cpu_write",
                     <<address, data>>, <<>>)
          /\ calls' = Append(calls, <<"mapper", address, data>>)

\* Cpu::write: a store of the CPU through its bus
CpuWrite ==
    /\ panic = NoPanic
    /\ Len(calls) < MaxWrites
    /\ \E address \in {0, 24576, 32767, 57344}, data \in {1, 2} :
          /\ Returns(write(Machine, address, data), "write", <<address, data>>, <<>>)
          /\ calls' = Append(calls, <<"bus", address, data>>)

\* Console::read_range(start..=end): the bytes the bus reads returned
ReadRange ==
    /\ panic = NoPanic
    /\ \E range \in {<<24576, 24577>>, <<24575, 24577>>, <<32766, 32768>>,
                     <<32767, 32767>>, <<24577, 24576>>} :
          LET done(n) ==
                Returns(n, "read_range", range,
                        <<[i \in 1..Len(n.log) |-> n.log[i][3]]>>)
          IN done(read_range(Machine, range[1], range[2], "trace"))
    /\ UNCHANGED calls

SpecCartridge ==
    InitCartridge /\ [][NromCpuRead \/ NromCpuWrite \/ CpuWrite \/ ReadRange]_vars

\* --------------------------------------- addressing_mode.rs: AddressingMode
\* AddressingMode::len: <<"Ok", bytes>>, or <<"panic", message>>
len(mode) ==
    IF mode = "Absolute" THEN <<"Ok", 3>>
    ELSE IF mode \in {"AbsoluteX", "AbsoluteY"} THEN <<"Ok", 2>>
    ELSE IF mode \in {"Accumulator", "Implied"} THEN <<"Ok", 1>>
    ELSE IF mode = "IndirectAbsolute" THEN <<"Ok", 3>>
    ELSE IF mode \in {"Immediate", "IndirectZeroPageX", "IndirectZeroPageY",
                      "Relative", "ZeroPage", "ZeroPageX", "ZeroPageY"}
    THEN <<"Ok", 2>>
    ELSE <<"panic", <<"not implemented">>>>

\* AddressingMode::for_opcode(opcode).len() for each opcode
InitLen ==
    /\ NoCpu
    /\ prg_rom = EmptyVec(0) /\ prg_ram = EmptyVec(0) /\ bank = 0
    /\ args \in {<<opcode>> : opcode \in 0..255}

ModeLen ==
    /\ last_call = "new"
    /\ LET done(r) ==
             Returns(IF r[1] = "panic" THEN Panic(Machine, r[2]) ELSE Machine,
                     "len", args, <<r[2]>>)
       IN done(len(ADDRESSING_MODES[args[1] + 1]))
    /\ UNCHANGED calls

SpecLen == InitLen /\ [][ModeLen]_vars

\* ----------------------------------------------------------------- claims
\* What a transition of the model was, seen from its two states.
Opcode == bus_value(Machine, pc)

Operand1 == bus_value(Machine, wrapping_add16(pc, 1))

Operand2 == bus_value(Machine, wrapping_add16(pc, 2))

Implemented(op) == INSTRUCTIONS[op + 1] # "unimplemented"

\* A call of step that returned.
CompletedStep == last_call' = "step" /\ panic' = NoPanic

\* The accesses an instruction made through Cpu::read and Cpu::write.
Accesses(log) == SelectSeq(log, LAMBDA e : e[1] \in {"read", "write"})

Reads(log) == SelectSeq(log, LAMBDA e : e[1] = "read")

Writes(log) == SelectSeq(log, LAMBDA e : e[1] = "write")

\* The opcode the last call of step fetched.
Fetched == IF Reads(bus_log) = <<>> THEN -1 ELSE Reads(bus_log)[1][3]

\* C1: in every state reached after a reset, bit 5 (U) of P is 1.
C1_UnusedBitAlwaysSet == resets >= 1 => contains(ps, UNUSED)

\* C2: a step of an implemented instruction that returns raises the cycle
\* counter by at least 2 (so the counter never decreases over steps).
C2_StepTakesAtLeastTwoCycles ==
    [][CompletedStep /\ Implemented(Opcode) => cycle' >= cycle + 2]_vars

\* C3: a CMP, CPX or CPY step leaves A, X and Y as they were.
CompareOpcodes == {201, 197, 213, 205, 221, 217, 193, 209, 224, 228, 236, 192, 196, 204}

C3_CompareKeepsRegisters ==
    [][CompletedStep /\ Opcode \in CompareOpcodes => a' = a /\ x' = x /\ y' = y]_vars

\* C4: SBC with operand M leaves the A and the C, Z, V, N flags that ADC
\* with operand 255 - M leaves from the same state.
SbcOpcodes == {233, 229, 245, 237, 253, 249, 225, 241}

ArithmeticFlags == CARRY + ZERO_RESULT + OVERFLOW + NEGATIVE_RESULT

C4_SbcIsAdcOfComplement ==
    [][CompletedStep /\ Opcode \in SbcOpcodes =>
        LET log == Reads(bus_log')
            operand == log[Len(log)][3]
            expected == adc(Machine, 255 - operand)
        IN /\ a' = expected.a
           /\ BitAnd(ps', ArithmeticFlags) = BitAnd(expected.ps, ArithmeticFlags)]_vars

\* The condition of each branch opcode, on a status byte.
BranchTaken(op, status) ==
    CASE op = 16 -> ~contains(status, NEGATIVE_RESULT)
      [] op = 48 -> contains(status, NEGATIVE_RESULT)
      [] op = 80 -> ~contains(status, OVERFLOW)
      [] op = 112 -> contains(status, OVERFLOW)
      [] op = 144 -> ~contains(status, CARRY)
      [] op = 176 -> contains(status, CARRY)
      [] op = 208 -> ~contains(status, ZERO_RESULT)
      [] op = 240 -> contains(status, ZERO_RESULT)

Signed(offset) == IF offset >= 128 THEN offset - 256 ELSE offset

BranchTarget == (pc + 2 + Signed(Operand1) + 65536) % 65536

\* C5: a taken branch at address a with offset o sets PC to a + 2 + o
\* (o signed, modulo 65536), a branch not taken to a + 2.
C5_BranchReachesItsTarget ==
    [][CompletedStep /\ Opcode \in BranchOpcodes =>
        pc' = IF BranchTaken(Opcode, ps) THEN BranchTarget
              ELSE wrapping_add16(pc, 2)]_vars

\* C6: after the opcode and offset fetches a branch reads nothing more when
\* not taken, once when taken within the page of a + 2, twice when taken
\* into another page.
C6_BranchReadCount ==
    [][CompletedStep /\ Opcode \in BranchOpcodes =>
        Len(Accesses(bus_log')) - 2 =
            IF ~BranchTaken(Opcode, ps) THEN 0
            ELSE IF BranchTarget \div 256 = wrapping_add16(pc, 2) \div 256 THEN 1
            ELSE 2]_vars

\* C7: JMP (IAH:IAL) reads the target's low byte at IAH:IAL and its high
\* byte at IAH:((IAL + 1) mod 256), and jumps to the word they form.
JmpIndirectLow == from_be_bytes(Operand2, Operand1)

JmpIndirectHigh == from_be_bytes(Operand2, (Operand1 + 1) % 256)

C7_JmpIndirectWrapsInPage ==
    [][CompletedStep /\ Opcode = 108 =>
        LET log == Accesses(bus_log')
        IN /\ Len(log) = 5
           /\ log[4] = <<"read", JmpIndirectLow, bus_value(Machine, JmpIndirectLow)>>
           /\ log[5] = <<"read", JmpIndirectHigh, bus_value(Machine, JmpIndirectHigh)>>
           /\ pc' = from_be_bytes(bus_value(Machine, JmpIndirectHigh),
                                  bus_value(Machine, JmpIndirectLow))]_vars

\* 6C FF 02 with $02FF = $34 and $0200 = $12 has jumped to $1234.
C7_Witness ==
    /\ last_call = "step" /\ panic = NoPanic /\ Fetched = 108
    /\ Accesses(bus_log)[4] = <<"read", 767, 52>>
    /\ Accesses(bus_log)[5] = <<"read", 512, 18>>
    /\ pc = 4660

\* The result each read-modify-write opcode computes from the byte it read.
RmwResult(op, value, carry_in) ==
    LET name == MNEMONICS[op + 1]
    IN CASE name = "Inc" -> (value + 1) % 256
         [] name = "Dec" -> (value + 255) % 256
         [] name = "Asl" -> (value * 2) % 256
         [] name = "Lsr" -> value \div 2
         [] name = "Rol" -> ((value * 2) % 256) + (IF carry_in THEN 1 ELSE 0)
         [] name = "Ror" -> (value \div 2) + (IF carry_in THEN 128 ELSE 0)

\* The effective address of the instruction at PC, from its addressing mode.
EffectiveAddress ==
    LET mode == ADDRESSING_MODES[Opcode + 1]
    IN CASE mode = "ZeroPage" -> Operand1
         [] mode = "ZeroPageX" -> (Operand1 + x) % 256
         [] mode = "Absolute" -> from_be_bytes(Operand2, Operand1)
         [] mode = "AbsoluteX" -> (from_be_bytes(Operand2, Operand1) + x) % 65536

\* C8: a memory-form INC, DEC, ASL, LSR, ROL or ROR step ends with a read
\* of the effective address, a write of the value read and a write of the
\* result, and writes nothing else.
C8_RmwSignature ==
    [][CompletedStep /\ Opcode \in RmwOpcodes =>
        LET log == Accesses(bus_log')
            n == Len(log)
            value == bus_value(Machine, EffectiveAddress)
        IN /\ n >= 5
           /\ log[n - 2] = <<"read", EffectiveAddress, value>>
           /\ log[n - 1] = <<"write", EffectiveAddress, value>>
           /\ log[n] = <<"write", EffectiveAddress,
                         RmwResult(Opcode, value, contains(ps, CARRY))>>
           /\ Len(Writes(bus_log')) = 2]_vars

\* An absolute,X read-modify-write whose index crossed a page has run on a
\* byte that the instruction changed.
C8_Witness ==
    /\ last_call = "step" /\ panic = NoPanic /\ Fetched \in RmwOpcodes
    /\ ADDRESSING_MODES[Fetched + 1] = "AbsoluteX"
    /\ LET log == Accesses(bus_log)
           n == Len(log)
       IN /\ n = 7
          /\ log[n][2] = 784
          /\ log[n - 3][2] = 528
          /\ log[n][3] # log[n - 1][3]

\* C9: a push (PHA, PHP) returns and leaves SP one lower, modulo 256.
C9_PushDecrementsModulo256 ==
    [][last_call' = "step" /\ Opcode \in {72, 8} /\ panic = NoPanic =>
        panic' = NoPanic /\ sp' = (sp + 255) % 256]_vars

\* C10: a reset that follows a reset leaves PC, SP, P, A, X, Y and the
\* cycle counter as the first one left them.
C10_ResetTwiceIsResetOnce ==
    [][last_call = "reset" /\ last_call' = "reset" =>
        /\ pc' = pc /\ sp' = sp /\ ps' = ps /\ a' = a /\ x' = x /\ y' = y
        /\ cycle' = cycle]_vars

\* Two resets in a row after a reset and steps that changed registers.
C10_Witness ==
    /\ prev_call = "reset" /\ last_call = "reset" /\ resets = 3
    /\ panic = NoPanic /\ cycle = INITIAL_CYCLE /\ pc = 32768
    /\ <<a, x, y, sp, ps>> # <<0, 0, 0, 255, 32>>

\* The calls made since construction are one reset followed by n steps.
ResetThenSteps(n) == calls = <<"reset">> \o [i \in 1..n |-> "step"]

\* C11: on the NOP-filled image, reset and then n steps of a fresh CPU give
\* PC = $8000 + n, cycle = 8 + 2n, A = X = Y = 0, SP = $FF and P = $20.
C11_NopSled ==
    \A n \in 0..MaxCycle :
        ResetThenSteps(n) =>
            /\ panic = NoPanic
            /\ pc = 32768 + n /\ cycle = INITIAL_CYCLE + 2 * n
            /\ a = 0 /\ x = 0 /\ y = 0 /\ sp = 255 /\ ps = 32

\* Ten steps after the reset: PC = $800A and 28 cycles.
C11_Witness == ResetThenSteps(10) /\ pc = 32778 /\ cycle = 28

\* C12: a step whose PC addresses an opcode marked Unimplemented aborts with
\* a fatal error that names the opcode byte and the PC, and at the abort PC,
\* SP, P, A, X, Y and the cycle counter have their values from before the step.
C12_UnimplementedAborts ==
    [][(last_call' = "step" /\ ADDRESSING_MODES[Opcode + 1] = "Unimplemented")
        => /\ panic' = <<"not implemented: Encountered opcode", Opcode, pc>>
           /\ pc' = pc /\ sp' = sp /\ ps' = ps
           /\ a' = a /\ x' = x /\ y' = y /\ cycle' = cycle]_vars

\* A step has aborted on opcode $02 at $8000.
C12_Witness ==
    /\ last_call = "step"
    /\ panic = <<"not implemented: Encountered opcode", 2, 32768>>
    /\ pc = 32768 /\ cycle = INITIAL_CYCLE

\* The number of 16 KiB banks of the cartridge.
Banks == prg_rom.len \div BANK_SIZE

\* Every cpu_write so far went to $8000..=$FFFF with a value below the number
\* of banks.
WritesBelowBanks ==
    \A i \in 1..Len(calls) : calls[i][1] \in 32768..65535 /\ calls[i][2] < Banks

\* The bank the most recent write named, bank 0 before any write.
NamedBank == IF calls = <<>> THEN 0 ELSE calls[Len(calls)][2]

\* C13: after writes to $8000..=$FFFF with values below the number k of banks,
\* cpu_read in $C000..=$FFFF returns the byte of the last bank at address -
\* $C000 and cpu_read in $8000..=$BFFF returns the byte at address - $8000 of
\* the bank the most recent write named (bank 0 before any write).
C13_UxromBanking ==
    (last_call = "cpu_read" /\ WritesBelowBanks /\ args[1] >= 32768) =>
        /\ panic = NoPanic
        /\ returned = <<VecGet(prg_rom,
                               IF args[1] >= 49152
                               THEN (Banks - 1) * BANK_SIZE + (args[1] - 49152)
                               ELSE NamedBank * BANK_SIZE + (args[1] - 32768))>>

\* Of 16 banks, bank 15 was selected after bank 1 and its second byte read.
C13_Witness ==
    /\ Banks = 16 /\ Len(calls) = 2 /\ WritesBelowBanks
    /\ calls[1][2] = 1 /\ calls[2][2] = 15
    /\ last_call = "cpu_read" /\ args = <<32769>> /\ returned = <<61>>

\* C14: a cpu_write of any byte to $8000..=$FFFF followed by a cpu_read in
\* $8000..=$BFFF never aborts: the bank index stays within 0..k-1.
C14_BankStaysInRange ==
    /\ bank \in 0..(Banks - 1)
    /\ (last_call = "cpu_read" /\ args[1] \in 32768..49151) => panic = NoPanic

\* C15: parse_header returns an error for every 16-byte input whose first
\* four bytes are not 'N', 'E', 'S', $1A, and a Header for every 16-byte
\* input that starts with them.
C15_MagicDecides ==
    (last_call = "parse_header" /\ Len(args[1]) = 16) =>
        /\ panic = NoPanic
        /\ returned[1] = (IF SubSeq(args[1], 1, 4) = <<78, 69, 83, 26>>
                          THEN "Ok" ELSE "Err")

\* "NES" followed by $00 instead of $1A was refused.
C15_Witness ==
    /\ last_call = "parse_header"
    /\ SubSeq(args[1], 1, 4) = <<78, 69, 83, 0>>
    /\ returned = <<"Err", "bad format">>

\* Bit n of a byte.
Bit(value, n) == (value \div (2 ^ n)) % 2 = 1

\* C16: for a header in iNES format (bits 2-3 of byte 7 are not binary 10),
\* prg_rom_size = byte 4 * 16384, chr_rom_size = byte 5 * 8192, mapper_id =
\* (byte 7 & $F0) | (byte 6 >> 4), mirroring is FourScreen if bit 3 of byte 6
\* is set, else Vertical if bit 0 is set, else Horizontal, has_battery is bit
\* 1 and has_trainer bit 2 of byte 6.
C16_INesFields ==
    (/\ last_call = "parse_header"
     /\ returned[1] = "Ok"
     /\ (args[1][8] \div 4) % 4 # 2) =>
        LET header == args[1]
            parsed == returned[2]
        IN /\ parsed.format = "INes"
           /\ parsed.prg_rom_size = header[5] * 16384
           /\ parsed.chr_rom_size = header[6] * 8192
           /\ parsed.mapper_id = (header[8] \div 16) * 16 + (header[7] \div 16)
           /\ parsed.mirroring = (IF Bit(header[7], 3) THEN "FourScreen"
                                  ELSE IF Bit(header[7], 0) THEN "Vertical"
                                  ELSE "Horizontal")
           /\ parsed.has_battery = Bit(header[7], 1)
           /\ parsed.has_trainer = Bit(header[7], 2)

\* An iNES header with byte 6 = $F0 and byte 7 = $10 gave mapper $1F.
C16_Witness ==
    /\ last_call = "parse_header"
    /\ returned[1] = "Ok"
    /\ args[1][7] = 240 /\ args[1][8] = 16
    /\ returned[2].mapper_id = 31
    /\ returned[2].format = "INes"

\* The file from_bytes was given, its length and its first sixteen bytes.
RomFile == args[1]

\* Wrong magic, fewer than 16 bytes, or fewer bytes than the header's trainer,
\* PRG-ROM and CHR-ROM take.
Malformed ==
    \/ RomFile.len < 16
    \/ <<VecGet(RomFile, 0), VecGet(RomFile, 1), VecGet(RomFile, 2), VecGet(RomFile, 3)>>
          # <<78, 69, 83, 26>>
    \/ RomFile.len < 16 + (IF (VecGet(RomFile, 6) \div 4) % 2 = 1 THEN 512 ELSE 0)
                        + VecGet(RomFile, 4) * 16384 + VecGet(RomFile, 5) * 8192

\* C17: given a malformed ROM (wrong magic, fewer than 16 bytes, or fewer
\* bytes than the declared trainer + PRG + CHR sizes), Mapper::from_bytes
\* returns an error value instead of aborting.
C17_MalformedRomIsAnError ==
    (last_call = "from_bytes" /\ Malformed) =>
        /\ panic = NoPanic
        /\ returned # <<>>
        /\ returned[1] = "Err"

\* C18: for an NROM mapper with L = 16384 or 32768 bytes of PRG-ROM,
\* cpu_read(addr) returns prg_rom[addr mod L] for addr in $8000..=$FFFF, and
\* with L = 16384 cpu_read(a) = cpu_read(a + $4000) for a in $8000..=$BFFF.
C18_NromMirrors ==
    /\ (last_call = "cpu_read" /\ args[1] >= 32768) =>
          returned = <<VecGet(prg_rom, args[1] % prg_rom.len)>>
    /\ prg_rom.len = 16384 =>
          \A address \in {32768, 32769, 40000, 49150, 49151} :
              Nrom_cpu_read(Machine, address) = Nrom_cpu_read(Machine, address + 16384)

\* The second byte of a 16 KiB PRG-ROM was read at $C001.
C18_Witness ==
    /\ last_call = "cpu_read" /\ prg_rom.len = 16384
    /\ args = <<49153>> /\ returned = <<1>>

\* C19: for an NROM mapper, a cpu_write to an address outside $6000..=$7FFF
\* changes the result of no later cpu_read at any address.
C19_WritesOutsideRamChangeNothing ==
    [][(last_call' = "cpu_write" /\ args'[1] \notin 24576..32767) =>
          \A address \in {24576, 32767, 32768, 32769, 49152, 49153, 65535} :
              Nrom_cpu_read([prg_ram |-> prg_ram', prg_rom |-> prg_rom'], address)
                 = Nrom_cpu_read(Machine, address)]_vars

C21_CyclesCountAccesses ==
    [][CompletedStep => cycle' - cycle = Len(Accesses(bus_log'))]_vars

\* A step of seven cycles whose trace reads came on top of its seven accesses.
C21_Witness ==
    /\ last_call = "step" /\ panic = NoPanic
    /\ Len(Accesses(bus_log)) = 7 /\ Len(bus_log) > 7

\* C22: trace generation inside step never calls the bus's read: the only
\* read calls the bus receives during a step are those of the instruction's
\* own execution.
C22_TraceReadsNothing ==
    last_call = "step" => \A i \in 1..Len(bus_log) : bus_log[i][1] # "trace"

\* C23: from two CPU states that differ only in the D flag, the same ADC or
\* SBC with the same operand gives the same A and the same C, Z, V, N flags,
\* and leaves the D flag of each state as it was.
C23_DecimalFlagIgnored ==
    [][(CompletedStep /\ MNEMONICS[Opcode + 1] \in {"Adc", "Sbc"}) =>
          LET same(twin) ==
                /\ twin.panic = NoPanic
                /\ twin.a = a'
                /\ BitAnd(twin.ps, ArithmeticFlags) = BitAnd(ps', ArithmeticFlags)
                /\ contains(twin.ps, DECIMAL_MODE) = ~contains(ps, DECIMAL_MODE)
                /\ contains(ps', DECIMAL_MODE) = contains(ps, DECIMAL_MODE)
          IN same(step([Machine EXCEPT !.ps = BitXor(@, DECIMAL_MODE)]))]_vars

\* $50 + $50 was added with D set: A = $A0 with V and N, and D still set.
C23_Witness ==
    /\ last_call = "step" /\ panic = NoPanic /\ Fetched = 105
    /\ contains(ps, DECIMAL_MODE) /\ a = 160
    /\ contains(ps, OVERFLOW) /\ contains(ps, NEGATIVE_RESULT)

\* C24: AddressingMode::len returns 1 for Implied and Accumulator, 2 for
\* Immediate, Relative, ZeroPage, ZeroPageX, ZeroPageY, IndirectZeroPageX and
\* IndirectZeroPageY, and 3 for Absolute, AbsoluteX, AbsoluteY and
\* IndirectAbsolute.
C24_ModeLengths ==
    (last_call = "len" /\ ADDRESSING_MODES[args[1] + 1] # "Unimplemented") =>
        /\ panic = NoPanic
        /\ returned =
             <<IF ADDRESSING_MODES[args[1] + 1] \in {"Implied", "Accumulator"} THEN 1
               ELSE IF ADDRESSING_MODES[args[1] + 1] \in
                          {"Absolute", "AbsoluteX", "AbsoluteY", "IndirectAbsolute"}
               THEN 3 ELSE 2>>

\* The address a store in zero-page, indexed zero-page or absolute mode names.
StoreAddress ==
    LET mode == ADDRESSING_MODES[Opcode + 1]
    IN IF mode = "ZeroPage" THEN Operand1
       ELSE IF mode = "ZeroPageX" THEN (Operand1 + x) % 256
       ELSE IF mode = "ZeroPageY" THEN (Operand1 + y) % 256
       ELSE Operand2 * 256 + Operand1

\* C25: every STX opcode writes X and every STY opcode writes Y to the
\* effective address, whatever A, X and Y are, and changes no flag.
C25_StoreIndexRegisters ==
    [][(CompletedStep /\ MNEMONICS[Opcode + 1] \in {"Stx", "Sty"}) =>
          /\ Writes(bus_log') =
                << <<"write", StoreAddress,
                     IF MNEMONICS[Opcode + 1] = "Stx" THEN x ELSE y>> >>
          /\ ps' = ps]_vars

\* The 151 documented opcodes of the 6502.
DocumentedOpcodes ==
    {0, 1, 5, 6, 8, 9, 10, 13, 14, 16, 17, 21, 22, 24, 25, 29, 30, 32, 33, 36,
     37, 38, 40, 41, 42, 44, 45, 46, 48, 49, 53, 54, 56, 57, 61, 62, 64, 65, 69,
     70, 72, 73, 74, 76, 77, 78, 80, 81, 85, 86, 88, 89, 93, 94, 96, 97, 101,
     102, 104, 105, 106, 108, 109, 110, 112, 113, 117, 118, 120, 121, 125, 126,
     129, 132, 133, 134, 136, 138, 140, 141, 142, 144, 145, 148, 149, 150, 152,
     153, 154, 157, 160, 161, 162, 164, 165, 166, 168, 169, 170, 172, 173, 174,
     176, 177, 180, 181, 182, 184, 185, 186, 188, 189, 190, 192, 193, 196, 197,
     198, 200, 201, 202, 204, 205, 206, 208, 209, 213, 214, 216, 217, 221, 222,
     224, 225, 228, 229, 230, 232, 233, 234, 236, 237, 238, 240, 241, 245, 246,
     248, 249, 253, 254}

\* C26: only illegal or undocumented opcodes are marked Unimplemented: no
\* step aborts as not implemented on a documented opcode, STA absolute,Y
\* ($99) included.
C26_DocumentedOpcodesRun ==
    (last_call = "step" /\ panic # NoPanic /\ panic[1] = "not implemented: Encountered opcode")
        => panic[2] \notin DocumentedOpcodes

\* C27: a pull first increments SP modulo 256 and then reads the byte at
\* $0100 | SP: PLA and PLP end with a read of the stack address after the
\* increment, PLA leaves that byte in A, and SP = $FF wraps to $00 without
\* an abort.
C27_PullReadsAfterIncrement ==
    [][(last_call' = "step" /\ Opcode \in {104, 40}) =>
          /\ panic' = NoPanic
          /\ sp' = (sp + 1) % 256
          /\ LET last(log) ==
                   /\ log[Len(log)][2] = STACK_BASE + sp'
                   /\ log[Len(log)][3] = bus_value(Machine, STACK_BASE + sp')
                   /\ Opcode = 104 => a' = bus_value(Machine, STACK_BASE + sp')
             IN last(Reads(bus_log'))]_vars

\* C28: the status byte PHP and BRK write to the stack has bit 4 (B) and bit
\* 5 (U) set for every value of P, and its other six bits are those of P.
C28_PushedStatusHasBreak ==
    [][(CompletedStep /\ Opcode \in {8, 0}) =>
          LET pushed(log) ==
                log[Len(log)][3] = BitOr(ps, BREAK_COMMAND + UNUSED)
          IN pushed(Writes(bus_log'))]_vars

\* C29: after BRK at address a, the I flag is set, PC is the word read from
\* $FFFE (low) and $FFFF (high), and the stack holds a + 2, high byte first
\* and then low byte, followed by the status byte.
C29_BrkEntersHandler ==
    [][(CompletedStep /\ Opcode = 0) =>
          LET return == to_be_bytes(wrapping_add16(pc, 2))
              pushes(log) ==
                /\ Len(log) = 3
                /\ log[1] = <<"write", STACK_BASE + sp, return[1]>>
                /\ log[2] = <<"write", STACK_BASE + ((sp + 255) % 256), return[2]>>
                /\ log[3][2] = STACK_BASE + ((sp + 254) % 256)
          IN /\ contains(ps', INTERRUPT_DISABLE)
             /\ pc' = from_be_bytes(bus_value(Machine, 65535), bus_value(Machine, 65534))
             /\ sp' = (sp + 253) % 256
             /\ pushes(Writes(bus_log'))]_vars

\* C30: after TAX, TAY, TXA, TYA and TSX the destination equals the source, Z
\* is set exactly when that value is 0 and N exactly when its bit 7 is 1; TXS
\* copies X to SP and leaves every flag unchanged.
C30_TransfersSetFlags ==
    [][(CompletedStep /\ Opcode \in {170, 168, 138, 152, 186, 154}) =>
          LET flags(value) ==
                /\ contains(ps', ZERO_RESULT) = (value = 0)
                /\ contains(ps', NEGATIVE_RESULT) = (value >= 128)
          IN /\ Opcode = 170 => x' = a /\ flags(a)
             /\ Opcode = 168 => y' = a /\ flags(a)
             /\ Opcode = 138 => a' = x /\ flags(x)
             /\ Opcode = 152 => a' = y /\ flags(y)
             /\ Opcode = 186 => x' = sp /\ flags(sp)
             /\ Opcode = 154 => sp' = x /\ ps' = ps]_vars

\* C31: a memory-form ASL, LSR, ROL or ROR step on the byte v with carry-in c
\* stores (v*2) mod 256, v div 2, ((v*2) mod 256) + c or (v div 2) + 128*c,
\* leaves C = bit 7 of v (ASL, ROL) or bit 0 of v (LSR, ROR), Z set exactly
\* when the result is 0 and N equal to bit 7 of the result.
ShiftOpcodes == {op \in RmwOpcodes : MNEMONICS[op + 1] \in {"Asl", "Lsr", "Rol", "Ror"}}

C31_ShiftsAndRotates ==
    [][CompletedStep /\ Opcode \in ShiftOpcodes =>
        LET v == bus_value(Machine, EffectiveAddress)
            result == RmwResult(Opcode, v, contains(ps, CARRY))
            carry_out == IF MNEMONICS[Opcode + 1] \in {"Asl", "Rol"}
                         THEN Bit(v, 7) ELSE Bit(v, 0)
            log == Writes(bus_log')
        IN /\ log[Len(log)][3] = result
           /\ contains(ps', CARRY) = carry_out
           /\ contains(ps', ZERO_RESULT) = (result = 0)
           /\ contains(ps', NEGATIVE_RESULT) = Bit(result, 7)]_vars

\* C32: a CMP, CPX or CPY step that compares the register r with the operand
\* m leaves C set exactly when r >= m, Z set exactly when r = m, and N equal
\* to bit 7 of (r - m) mod 256.
C32_CompareFlags ==
    [][CompletedStep /\ Opcode \in CompareOpcodes =>
        LET log == Reads(bus_log')
            m == log[Len(log)][3]
            name == MNEMONICS[Opcode + 1]
            r == IF name = "Cmp" THEN a ELSE IF name = "Cpx" THEN x ELSE y
        IN /\ contains(ps', CARRY) = (r >= m)
           /\ contains(ps', ZERO_RESULT) = (r = m)
           /\ contains(ps', NEGATIVE_RESULT) = Bit((r - m + 256) % 256, 7)]_vars

\* C33: an ADC step with accumulator A, operand M and carry-in C leaves
\* A = (A + M + C) mod 256, the carry set exactly when A + M + C > 255, V set
\* exactly when ((A xor r) and (M xor r) and $80) is not 0 for the result r,
\* Z set exactly when r = 0 and N equal to bit 7 of r.
C33_AdcResultAndFlags ==
    [][CompletedStep /\ MNEMONICS[Opcode + 1] = "Adc" =>
        LET log == Reads(bus_log')
            operand == log[Len(log)][3]
            sum == a + operand + (IF contains(ps, CARRY) THEN 1 ELSE 0)
            r == sum % 256
        IN /\ a' = r
           /\ contains(ps', CARRY) = (sum > 255)
           /\ contains(ps', OVERFLOW) =
                (BitAnd(BitAnd(BitXor(a, r), BitXor(operand, r)), 128) # 0)
           /\ contains(ps', ZERO_RESULT) = (r = 0)
           /\ contains(ps', NEGATIVE_RESULT) = Bit(r, 7)]_vars

\* $80 + $FF was added with the carry clear: A = $7F with C and V set.
C33_Witness ==
    /\ last_call = "step" /\ panic = NoPanic /\ Fetched = 105
    /\ a = 127 /\ contains(ps, CARRY) /\ contains(ps, OVERFLOW)
    /\ ~contains(ps, NEGATIVE_RESULT) /\ ~contains(ps, ZERO_RESULT)

\* C34: in absolute,X, absolute,Y and (zp),Y mode with base address BAH:BAL
\* and index i, a read-form instruction reads BAH:((BAL + i) mod 256) before
\* its operand only when BAL + i > 255, a store or read-modify-write
\* instruction always does, and in both forms the operand is accessed at
\* (BAH:BAL + i) mod 65536.
IndexedModes == {"AbsoluteX", "AbsoluteY", "IndirectZeroPageY"}

WriteForm(op) == MNEMONICS[op + 1] \in {"Sta", "Inc", "Dec", "Asl", "Lsr", "Rol", "Ror"}

C34_IndexedDummyRead ==
    [][CompletedStep /\ ADDRESSING_MODES[Opcode + 1] \in IndexedModes =>
        LET mode == ADDRESSING_MODES[Opcode + 1]
            indirect == mode = "IndirectZeroPageY"
            bal == IF indirect THEN bus_value(Machine, Operand1) ELSE Operand1
            bah == IF indirect THEN bus_value(Machine, (Operand1 + 1) % 256)
                   ELSE Operand2
            i == IF mode = "AbsoluteX" THEN x ELSE y
            same_page == from_be_bytes(bah, (bal + i) % 256)
            effective == (from_be_bytes(bah, bal) + i) % 65536
            dummy == WriteForm(Opcode) \/ bal + i > 255
            k == IF indirect THEN 4 ELSE 3
            log == Accesses(bus_log')
            operand == IF dummy THEN k + 2 ELSE k + 1
        IN /\ Len(log) >= operand
           /\ dummy => log[k + 1] = <<"read", same_page, bus_value(Machine, same_page)>>
           /\ log[operand][2] = effective
           /\ \A j \in operand..Len(log) : log[j][2] = effective
           /\ Len(log) = operand + (IF MNEMONICS[Opcode + 1] = "Inc" THEN 2 ELSE 0)]_vars

\* LDA $FFF0,X with X = $20 crossed the page: it read $FF10 and then loaded
\* the byte at $0010, in five accesses.
C34_Witness ==
    /\ last_call = "step" /\ panic = NoPanic /\ Fetched = 189
    /\ LET log == Accesses(bus_log)
       IN /\ Len(log) = 5
          /\ log[4] = <<"read", 65296, 2>>
          /\ log[5] = <<"read", 16, 240>>
          /\ a = 240

\* C35: a JSR at address a with target T reads the target's low byte at
\* a + 1, reads $0100|SP, writes the high byte of a + 2 at $0100|SP, writes
\* the low byte of a + 2 at $0100|((SP - 1) mod 256) and reads the target's
\* high byte at a + 2, in that order, and leaves PC = T and SP lower by 2
\* modulo 256.
C35_JsrSequence ==
    [][last_call' = "step" /\ panic = NoPanic /\ Opcode = 32 =>
        LET log == Accesses(bus_log')
            return == wrapping_add16(pc, 2)
        IN /\ panic' = NoPanic
           /\ log = <<<<"read", pc, 32>>,
                      <<"read", wrapping_add16(pc, 1), Operand1>>,
                      <<"read", STACK_BASE + sp, bus_value(Machine, STACK_BASE + sp)>>,
                      <<"write", STACK_BASE + sp, to_be_bytes(return)[1]>>,
                      <<"write", STACK_BASE + ((sp + 255) % 256), to_be_bytes(return)[2]>>,
                      <<"read", return, Operand2>>>>
           /\ pc' = from_be_bytes(Operand2, Operand1)
           /\ sp' = (sp + 254) % 256]_vars

\* C37: a PLA that immediately follows a PHA leaves A equal to its value
\* before the PHA, leaves SP equal to its value before the PHA, and sets Z
\* and N from that value.
C37_PhaPlaRestoresA ==
    [][(last_call = "step" /\ Fetched = 72 /\ panic = NoPanic
        /\ last_call' = "step" /\ Opcode = 104) =>
        LET pushed == Writes(bus_log)[1]
        IN /\ panic' = NoPanic
           /\ a' = a
           /\ a' = pushed[3]
           /\ sp' = pushed[2] - STACK_BASE
           /\ contains(ps', ZERO_RESULT) = (a = 0)
           /\ contains(ps', NEGATIVE_RESULT) = Bit(a, 7)]_vars

\* C38: an RTS that runs as the first instruction of the target of a JSR at
\* address a returns with PC = (a + 3) mod 65536 and SP equal to its value
\* before the JSR.
C38_JsrRtsReturns ==
    [][(last_call = "step" /\ Fetched = 32 /\ panic = NoPanic
        /\ last_call' = "step" /\ Opcode = 96) =>
        LET log == Accesses(bus_log)
            jsr_at == log[1][2]
            sp_before == log[3][2] - STACK_BASE
        IN /\ panic' = NoPanic
           /\ pc' = wrapping_add16(jsr_at, 3)
           /\ sp' = sp_before]_vars

\* C36: for a NES 2.0 header whose PRG-ROM (CHR-ROM) size field selects the
\* exponent-multiplier form, parse_header returns the size
\* 2^exponent * (multiplier * 2 + 1), where exponent is bits 2-7 and
\* multiplier bits 0-1 of the size's low byte (stated for exponents up to 24).
ExponentMultiplierSize(size_lsb) ==
    (2 ^ (size_lsb \div 4)) * ((size_lsb % 4) * 2 + 1)

C36_ExponentMultiplierSizes ==
    (/\ last_call = "parse_header"
     /\ returned[1] = "Ok"
     /\ (args[1][8] \div 4) % 4 = 2) =>
        LET header == args[1]
            parsed == returned[2]
        IN /\ (header[10] % 16 = 15 /\ header[5] \div 4 <= 24) =>
                parsed.prg_rom_size = ExponentMultiplierSize(header[5])
           /\ (header[10] \div 16 = 15 /\ header[6] \div 4 <= 24) =>
                parsed.chr_rom_size = ExponentMultiplierSize(header[6])

\* C39: for every opcode the handler table holds `unimplemented` exactly when
\* the addressing-mode table holds Unimplemented and exactly when the
\* mnemonic table holds Unimplemented; so no step fetches an opcode whose
\* handler is `unimplemented`: such a step aborts in decode, before the trace
\* line and the fetch.
C39_TablesAgree ==
    /\ \A op \in 0..255 :
          /\ (INSTRUCTIONS[op + 1] = "unimplemented")
                = (ADDRESSING_MODES[op + 1] = "Unimplemented")
          /\ (ADDRESSING_MODES[op + 1] = "Unimplemented")
                = (MNEMONICS[op + 1] = "Unimplemented")
    /\ (last_call = "step" /\ Fetched # -1) =>
          INSTRUCTIONS[Fetched + 1] # "unimplemented"

\* A step on $99, whose handler is `unimplemented`, aborted in decode: it
\* read the opcode for the trace only and fetched nothing.
C39_Witness ==
    /\ last_call = "step"
    /\ panic = <<"not implemented: Encountered opcode", 153, 32768>>
    /\ INSTRUCTIONS[153 + 1] = "unimplemented"
    /\ bus_log = <<<<"trace", 32768, 153>>>>

\* C40: a step of an implemented opcode other than a branch, JMP, JSR, RTS,
\* RTI or BRK advances PC, modulo 65536, by AddressingMode::len of the
\* opcode's addressing mode, and the trace line of the step reads that many
\* instruction bytes.
ControlFlow(op) ==
    \/ ADDRESSING_MODES[op + 1] = "Relative"
    \/ MNEMONICS[op + 1] \in {"Jmp", "Jsr", "Rts", "Rti", "Brk"}

\* The instruction bytes decode read for the trace line of the last step.
TraceBytes(log, from) ==
    Cardinality({k \in 1..3 :
        \A i \in 1..k : /\ i <= Len(log)
                        /\ log[i][1] = "trace"
                        /\ log[i][2] = wrapping_add16(from, i - 1)})

C40_PcAdvancesByLen ==
    [][(CompletedStep /\ Implemented(Opcode) /\ ~ControlFlow(Opcode)) =>
          LET bytes == len(ADDRESSING_MODES[Opcode + 1])
          IN /\ bytes[1] = "Ok"
             /\ pc' = wrapping_add16(pc, bytes[2])
             /\ TraceBytes(bus_log', pc) = bytes[2]]_vars

====
